---- MODULE Spec2Model ----
(***************************************************************************)
(* Verification model of the two core components of the trading bot:       *)
(*   - market/combined_streams.go : CombinedStreamsClient, the combined-   *)
(*     stream WebSocket multiplexer (Connect, subscribe, read loop,        *)
(*     reconnect, Close);                                                  *)
(*   - api/server.go : Server.analyzePerformanceFromBinance, the fold of   *)
(*     exchange fills into closed trades.                                  *)
(* Goroutines are modelled as tasks with a program counter; every section  *)
(* the code runs under c.mu is one atomic step.                            *)
(***************************************************************************)
EXTENDS Integers, Sequences, FiniteSets, Bags, TLC

\* ------------------------------------------------------------------------
\* Bounds of the multiplexer model
\* ------------------------------------------------------------------------
MaxReadFails == 1
MaxDialFails == 1
MaxSubCalls == 2
MaxAddSubs == 2
MaxCloseCalls == 2
MaxBatchSize == 3
MaxBuffer == 1
\* batches one call of splitIntoBatches may append before the model stops it
MaxBatches == 4

BatchSizes == {2, MaxBatchSize}
\* every kind of batch size the constructor accepts: negative, 0 and positive
AnyBatchSizes == -1..MaxBatchSize
BufferSizes == 1..MaxBuffer

\* ------------------------------------------------------------------------
\* Symbols, stream keys, frames
\* ------------------------------------------------------------------------
Symbols == {"BTCUSDT", "ETHUSDT", "ethusdt", "SOLUSDT"}
Intervals == {"1m"}
SymbolLists == {<<"BTCUSDT", "ETHUSDT">>, <<"ethusdt", "SOLUSDT">>}
Payloads == {"k1", "k2"}

\* ------------------------------------------------------------------------
\* Fills: quantities and money are counted in units of 0.0001, prices in units of 1
\* ------------------------------------------------------------------------
MaxFills == 4

\* `pos.totalQty <= 0.0001`
Eps == 1

\* `leverage := 5`
DefaultLeverage == 5

HistorySymbols == {"BTCUSDT"}

\* the fills the exchange may return for a symbol (Time is set by their order)
FillSet ==
    { [Side |-> "BUY",  PositionSide |-> "LONG",  Qty |-> 10000, Price |-> 100,
       RealizedPnl |-> 0, Commission |-> 400],
      [Side |-> "BUY",  PositionSide |-> "LONG",  Qty |-> 10000, Price |-> 120,
       RealizedPnl |-> 0, Commission |-> 0],
      [Side |-> "BUY",  PositionSide |-> "LONG",  Qty |-> 2,     Price |-> 100,
       RealizedPnl |-> 0, Commission |-> 0],
      [Side |-> "SELL", PositionSide |-> "LONG",  Qty |-> 10000, Price |-> 110,
       RealizedPnl |-> 100000, Commission |-> 2000],
      [Side |-> "SELL", PositionSide |-> "LONG",  Qty |-> 5000,  Price |-> 90,
       RealizedPnl |-> -50000, Commission |-> 1000],
      [Side |-> "SELL", PositionSide |-> "LONG",  Qty |-> 1,     Price |-> 110,
       RealizedPnl |-> 10, Commission |-> 0],
      [Side |-> "SELL", PositionSide |-> "SHORT", Qty |-> 10000, Price |-> 100,
       RealizedPnl |-> 0, Commission |-> 400],
      [Side |-> "BUY",  PositionSide |-> "SHORT", Qty |-> 10000, Price |-> 90,
       RealizedPnl |-> 100000, Commission |-> 2000],
      [Side |-> "BUY",  PositionSide |-> "BOTH",  Qty |-> 10000, Price |-> 100,
       RealizedPnl |-> 0, Commission |-> 400] }

\* strings.ToLower on the symbols of the model
ToLower(s) ==
    CASE s = "BTCUSDT" -> "btcusdt"
      [] s = "ETHUSDT" -> "ethusdt"
      [] s = "SOLUSDT" -> "solusdt"
      [] OTHER -> s

\* fmt.Sprintf("%s@kline_%s", strings.ToLower(symbol), interval)
StreamKey(symbol, interval) == ToLower(symbol) \o "@kline_" \o interval

AllKeys == {StreamKey(s, i) : s \in Symbols, i \in Intervals}

Range(q) == {q[j] : j \in 1..Len(q)}

RECURSIVE Concat(_)
Concat(qq) == IF qq = <<>> THEN <<>> ELSE Head(qq) \o Concat(Tail(qq))

\* all orderings of a finite set, as sequences without repetition
Orderings(S) ==
    {q \in [1..Cardinality(S) -> S] : \A a, b \in 1..Cardinality(S) : a # b => q[a] # q[b]}

\* a split whose loop stops at the last full slice and loses a shorter tail
RECURSIVE splitIntoBatchesDropTail(_, _)
splitIntoBatchesDropTail(symbols, size) ==
    IF Len(symbols) < size THEN <<>>
    ELSE <<SubSeq(symbols, 1, size)>>
             \o splitIntoBatchesDropTail(SubSeq(symbols, size + 1, Len(symbols)), size)

\* splitIntoBatches: consecutive slices [i, min(i+batchSize, len)) for i = 0, batchSize, ...
RECURSIVE splitIntoBatches(_, _)
splitIntoBatches(symbols, size) ==
    IF Len(symbols) = 0 THEN <<>>
    ELSE LET end == IF size > Len(symbols) THEN Len(symbols) ELSE size
         IN  <<SubSeq(symbols, 1, end)>>
                 \o splitIntoBatches(SubSeq(symbols, end + 1, Len(symbols)), size)

\* ------------------------------------------------------------------------
\* State
\* ------------------------------------------------------------------------
VARIABLES
    conn,               \* c.conn: 0 is nil, otherwise the id of a socket
    nSocks,             \* sockets dialled so far (ids 1..nSocks)
    sockOpen,           \* sockets not yet closed
    sockSubs,           \* per socket, the stream keys the exchange has a SUBSCRIBE for
    sockTried,          \* per socket, the stream keys of every SUBSCRIBE written to it,
                        \* whether or not WriteJSON returned an error
    subscribers,        \* c.subscribers: stream key -> channel id, 0 when absent
    chans,              \* the channels made by AddSubscriber: buffer, capacity, closed
    reconnect,          \* c.reconnect
    doneClosed,         \* c.done has been closed
    batchSize,          \* c.batchSize
    subscribedStreams,  \* c.subscribedStreams
    tasks,              \* the bag of live goroutines running readMessages / handleReconnect
    sub,                \* the caller inside BatchSubscribeKlines
    closer,             \* the caller inside Close
    connectRes,         \* what the owner's last Connect returned: "none", "ok" or "err"
    panic,              \* "none" or the runtime panic that ended the process
    readFails,          \* read failures injected by the network so far
    dialFails,          \* dials failed during reconnection so far
    dropped,            \* channels that dropped a frame and were not drained since
    afterDrop           \* a frame was delivered while another channel stayed full after a drop

VARIABLES
    todo,               \* symbols of tradeHistory the outer loop has not visited yet
    symbol,             \* the symbol of the current iteration, "" outside the loop
    trades,             \* the fills of the current symbol read so far
    longPos,            \* *longPos
    shortPos,           \* *shortPos
    analysis,           \* *analysis
    stage,              \* "called" when handlePerformance calls the analysis, "fold" while
                        \* in the loops, "returned" once (analysis, nil) is returned,
                        \* "failed" once (nil, err) is returned, "answered" after c.JSON
    handler,            \* handlePerformance: what the history fetch and the decision log
                        \* returned, and the status and body given to c.JSON
    peer                \* a second call of the analysis in another goroutine: which of the
                        \* two calls is running, the history both were given, and the
                        \* locals of the call that is not running

reconVars == <<todo, symbol, trades, longPos, shortPos, analysis, stage, handler, peer>>

muxVars == <<conn, nSocks, sockOpen, sockSubs, sockTried, subscribers, chans, reconnect, doneClosed,
             batchSize, subscribedStreams, tasks, sub, closer, connectRes, panic, readFails,
             dialFails, dropped, afterDrop>>

netVars == <<conn, nSocks, sockOpen, sockSubs, sockTried>>
regVars == <<subscribers, chans>>
flagVars == <<reconnect, doneClosed>>
budgetVars == <<readFails, dialFails>>
obsVars == <<connectRes, dropped, afterDrop>>

vars == <<muxVars, reconVars>>

\* a goroutine at program point p, its locals unset
TaskAt(p) == [pc |-> p, sock |-> 0, ch |-> 0, data |-> "", uniq |-> <<>>, i |-> 0,
              att |-> <<>>, inst |-> 0, snapLen |-> 0]

ReaderPcs == {"rd_select", "rd_conn", "rd_read", "rd_send"}
ReconnectPcs == {"rc_entry", "rc_sleep", "rc_snap", "rc_batch", "rc_spawn"}

\* `go f()`: one more goroutine
Spawn(ts, rec) == ts (+) SetToBag({rec})

\* goroutine r returns
Exit(ts, r) == ts (-) SetToBag({r})

\* goroutine r moves on to r2
Step(ts, r, r2) == Spawn(Exit(ts, r), r2)

Tasks == BagToSet(tasks)

IdleSub == [pc |-> "idle", symbols |-> <<>>, i |-> 0, batches |-> <<>>, k |-> 0,
            interval |-> "", streams |-> <<>>, sock |-> 0, calls |-> 0, res |-> -1]

Running == panic = "none"

\* NewCombinedStreamsClient(batchSize) for a batchSize among sizes
InitClient(sizes) ==
    /\ conn = 0
    /\ nSocks = 0
    /\ sockOpen = {}
    /\ sockSubs = <<>>
    /\ sockTried = <<>>
    /\ subscribers = [k \in AllKeys |-> 0]
    /\ chans = <<>>
    /\ reconnect = TRUE
    /\ doneClosed = FALSE
    /\ batchSize \in sizes
    /\ subscribedStreams = <<>>
    /\ tasks = EmptyBag
    /\ sub = IdleSub
    /\ closer = [pc |-> "idle", calls |-> 0]
    /\ connectRes = "none"
    /\ panic = "none"
    /\ readFails = 0
    /\ dialFails = 0
    /\ dropped = {}
    /\ afterDrop = FALSE

\* the client constructed with one of the batch sizes of the deployment
InitMux == InitClient(BatchSizes)

\* ------------------------------------------------------------------------
\* Connect
\* ------------------------------------------------------------------------
\* The body of Connect after a successful dial: install the handle under the
\* lock, then `go c.readMessages()`.
connectOk(ts) == Spawn(ts, TaskAt("rd_select"))

\* Connect called by the owner of the client at start-up; the dial succeeds
ConnectOk ==
    /\ Running
    /\ nSocks = 0
    /\ closer.calls = 0
    /\ nSocks' = nSocks + 1
    /\ sockOpen' = sockOpen \cup {nSocks + 1}
    /\ conn' = nSocks + 1
    /\ sockSubs' = Append(sockSubs, {})
    /\ sockTried' = Append(sockTried, {})
    /\ tasks' = connectOk(tasks)
    /\ connectRes' = "ok"
    /\ UNCHANGED reconVars
    /\ UNCHANGED <<regVars, flagVars, batchSize, subscribedStreams, sub, closer,
                   panic, budgetVars, dropped, afterDrop>>

\* a Connect that answers a failed dial by starting the reconnect procedure
connectErrRetry(ts) == Spawn(ts, TaskAt("rc_entry"))

\* the body of Connect after a failed dial: `return fmt.Errorf(...)`, nothing else
connectErr(ts) == ts

\* Connect called by the owner; the dial fails and the error is returned
ConnectFail ==
    /\ Running
    /\ nSocks = 0
    /\ closer.calls = 0
    /\ connectRes' = "err"
    /\ tasks' = connectErr(tasks)
    /\ UNCHANGED reconVars
    /\ UNCHANGED <<netVars, regVars, flagVars, batchSize, subscribedStreams, sub,
                   closer, panic, budgetVars, dropped, afterDrop>>

\* ------------------------------------------------------------------------
\* readMessages
\* ------------------------------------------------------------------------
\* top of the loop: `select { case <-c.done: return; default: ... }`
RdSelect(r) ==
    /\ Running
    /\ r.pc = "rd_select"
    /\ tasks' = IF doneClosed THEN Exit(tasks, r) ELSE Step(tasks, r, TaskAt("rd_conn"))
    /\ UNCHANGED reconVars
    /\ UNCHANGED <<netVars, regVars, flagVars, batchSize, subscribedStreams, sub, closer,
                   panic, budgetVars, obsVars>>

\* read c.conn under the read lock; nil: sleep one second and loop, else set the
\* read deadline and call ReadMessage on it
RdConn(r) ==
    /\ Running
    /\ r.pc = "rd_conn"
    /\ tasks' = Step(tasks, r, IF conn = 0 THEN TaskAt("rd_select")
                                ELSE [TaskAt("rd_read") EXCEPT !.sock = conn])
    /\ UNCHANGED reconVars
    /\ UNCHANGED <<netVars, regVars, flagVars, batchSize, subscribedStreams, sub, closer,
                   panic, budgetVars, obsVars>>

\* handleCombinedMessage up to the end of its read-locked section: the frame
\* {stream: k, data: d} is parsed and c.subscribers[k] is looked up
handleCombinedMessage(r, k, d) ==
    IF subscribers[k] # 0
    THEN [TaskAt("rd_send") EXCEPT !.sock = r.sock, !.ch = subscribers[k], !.data = d]
    ELSE TaskAt("rd_select")

\* ReadMessage returns a data frame of a stream the exchange was asked for on this socket
ReadFrame(r, k, d) ==
    /\ Running
    /\ r.pc = "rd_read"
    /\ r.sock \in sockOpen
    /\ k \in sockSubs[r.sock]
    /\ tasks' = Step(tasks, r, handleCombinedMessage(r, k, d))
    /\ UNCHANGED reconVars
    /\ UNCHANGED <<netVars, regVars, flagVars, batchSize, subscribedStreams, sub, closer,
                   panic, budgetVars, obsVars>>

\* ReadMessage returns a frame that carries no known stream (the reply to a
\* SUBSCRIBE, or bytes that do not parse): handleCombinedMessage returns at once
ReadOther(r) ==
    /\ Running
    /\ r.pc = "rd_read"
    /\ r.sock \in sockOpen
    /\ sockSubs[r.sock] # {}
    /\ tasks' = Step(tasks, r, TaskAt("rd_select"))
    /\ UNCHANGED reconVars
    /\ UNCHANGED <<netVars, regVars, flagVars, batchSize, subscribedStreams, sub, closer,
                   panic, budgetVars, obsVars>>

\* a send that makes room by discarding the oldest buffered payload
trySendEvictOldest(c, d) ==
    IF Len(chans[c].buf) < chans[c].cap
    THEN [chans EXCEPT ![c].buf = Append(@, d)]
    ELSE [chans EXCEPT ![c].buf = Append(Tail(@), d)]

\* the non-blocking send `select { case ch <- data: default: log }`
trySend(c, d) ==
    IF Len(chans[c].buf) < chans[c].cap
    THEN [chans EXCEPT ![c].buf = Append(@, d)]
    ELSE chans

RdSend(r) ==
    /\ Running
    /\ r.pc = "rd_send"
    /\ LET c == r.ch
           full == Len(chans[c].buf) >= chans[c].cap
       IN  IF chans[c].closed
           THEN /\ panic' = "send on closed channel"
                /\ UNCHANGED <<chans, tasks, dropped, afterDrop>>
           ELSE /\ chans' = trySend(c, r.data)
                /\ tasks' = Step(tasks, r, TaskAt("rd_select"))
                /\ dropped' = IF full THEN dropped \cup {c} ELSE dropped
                /\ afterDrop' = (afterDrop \/ (~full /\ dropped \ {c} # {}))
                /\ UNCHANGED panic
    /\ UNCHANGED reconVars
    /\ UNCHANGED <<netVars, subscribers, flagVars, batchSize, subscribedStreams, sub, closer,
                   budgetVars, connectRes>>

\* handleReconnect up to its sleep: `if !c.reconnect { return }`
handleReconnectEntry(ts, r) ==
    IF reconnect THEN Step(ts, r, TaskAt("rc_sleep")) ELSE Exit(ts, r)

\* a read loop that treats the idle timeout as harmless and reads again
onReadErrorRetryTimeout(ts, r, kind) ==
    IF kind = "timeout" THEN Step(ts, r, TaskAt("rd_select")) ELSE handleReconnectEntry(ts, r)

\* what readMessages does with a read error of either kind: log, then handleReconnect
onReadError(ts, r, kind) == handleReconnectEntry(ts, r)

\* ReadMessage fails on a live socket: the idle deadline expired ("timeout") or
\* the network failed ("error")
ReadFail(r, kind) ==
    /\ Running
    /\ r.pc = "rd_read"
    /\ r.sock \in sockOpen
    /\ kind \in {"timeout", "error"}
    /\ readFails < MaxReadFails
    /\ readFails' = readFails + 1
    /\ tasks' = onReadError(tasks, r, kind)
    /\ UNCHANGED reconVars
    /\ UNCHANGED <<netVars, regVars, flagVars, batchSize, subscribedStreams, sub, closer,
                   panic, dialFails, obsVars>>

\* ReadMessage fails because the socket was closed under the reader
ReadClosed(r) ==
    /\ Running
    /\ r.pc = "rd_read"
    /\ r.sock \notin sockOpen
    /\ tasks' = onReadError(tasks, r, "error")
    /\ UNCHANGED reconVars
    /\ UNCHANGED <<netVars, regVars, flagVars, batchSize, subscribedStreams, sub, closer,
                   panic, budgetVars, obsVars>>

\* the consumer of a subscriber channel takes the oldest buffered payload
Consume(c) ==
    /\ Running
    /\ c \in 1..Len(chans)
    /\ chans[c].buf # <<>>
    /\ chans' = [chans EXCEPT ![c].buf = Tail(@)]
    /\ dropped' = dropped \ {c}
    /\ UNCHANGED reconVars
    /\ UNCHANGED <<netVars, subscribers, flagVars, batchSize, subscribedStreams, tasks, sub,
                   closer, panic, budgetVars, connectRes, afterDrop>>

\* AddSubscriber(stream, bufferSize)
AddSubscriber(stream, bufferSize) ==
    /\ Running
    /\ closer.calls = 0
    /\ Len(chans) < MaxAddSubs
    /\ chans' = Append(chans, [buf |-> <<>>, cap |-> bufferSize, closed |-> FALSE,
                                closes |-> 0])
    /\ subscribers' = [subscribers EXCEPT ![stream] = Len(chans) + 1]
    /\ UNCHANGED reconVars
    /\ UNCHANGED <<netVars, flagVars, batchSize, subscribedStreams, tasks, sub, closer,
                   panic, budgetVars, obsVars>>

\* ------------------------------------------------------------------------
\* handleReconnect
\* ------------------------------------------------------------------------
\* a goroutine started by `go c.handleReconnect()` checks c.reconnect
RcEntry(r) ==
    /\ Running
    /\ r.pc = "rc_entry"
    /\ tasks' = handleReconnectEntry(tasks, r)
    /\ UNCHANGED reconVars
    /\ UNCHANGED <<netVars, regVars, flagVars, batchSize, subscribedStreams, sub, closer,
                   panic, budgetVars, obsVars>>

\* after the 3 s sleep c.Connect() succeeds: the new handle is installed, Connect
\* starts a read loop, and handleReconnect goes on to resubscribe
RcDialOk(r) ==
    /\ Running
    /\ r.pc = "rc_sleep"
    /\ nSocks' = nSocks + 1
    /\ sockOpen' = sockOpen \cup {nSocks + 1}
    /\ conn' = nSocks + 1
    /\ sockSubs' = Append(sockSubs, {})
    /\ sockTried' = Append(sockTried, {})
    /\ tasks' = connectOk(Step(tasks, r, [TaskAt("rc_snap") EXCEPT !.inst = nSocks + 1]))
    /\ UNCHANGED reconVars
    /\ UNCHANGED <<regVars, flagVars, batchSize, subscribedStreams, sub, closer,
                   panic, budgetVars, obsVars>>

\* a reconnect that gives up after the first failed dial
onDialErrorGiveUp(ts, r) == Exit(ts, r)

\* what handleReconnect does when c.Connect() returned an error:
\* `go c.handleReconnect(); return`
onDialError(ts, r) == Spawn(Exit(ts, r), TaskAt("rc_entry"))

\* after the 3 s sleep c.Connect() fails
RcDialFail(r) ==
    /\ Running
    /\ r.pc = "rc_sleep"
    /\ dialFails < MaxDialFails
    /\ dialFails' = dialFails + 1
    /\ tasks' = onDialError(tasks, r)
    /\ UNCHANGED reconVars
    /\ UNCHANGED <<netVars, regVars, flagVars, batchSize, subscribedStreams, sub, closer,
                   panic, readFails, obsVars>>

\* a resubscription list of the first recorded stream only
uniqueStreamsOldestOnly(streams) ==
    IF streams = <<>> THEN {<<>>} ELSE {<<Head(streams)>>}

\* a resubscription list that keeps the duplicates of c.subscribedStreams
uniqueStreamsNoDedup(streams) == {streams}

\* the deduplicated subscription list: the keys of streamSet in the order the
\* map iteration yields them (any order)
uniqueStreams(streams) == Orderings(Range(streams))

\* under the lock: build streamSet and uniqueStreams from c.subscribedStreams
RcSnap(r) ==
    /\ Running
    /\ r.pc = "rc_snap"
    /\ \E u \in uniqueStreams(subscribedStreams) :
         tasks' = Step(tasks, r,
                       [r EXCEPT !.pc = IF Len(u) > 0 THEN "rc_batch" ELSE "rc_spawn",
                                 !.uniq = u,
                                 !.i = 0,
                                 !.snapLen = Len(subscribedStreams)])
    /\ UNCHANGED reconVars
    /\ UNCHANGED <<netVars, regVars, flagVars, batchSize, subscribedStreams, sub, closer,
                   panic, budgetVars, obsVars>>

\* the slice uniqueStreams[i:end] of the resubscription loop
resubBatch(u, i, size) ==
    SubSeq(u, i + 1, IF i + size > Len(u) THEN Len(u) ELSE i + size)

\* a resubscription loop that stops at the first batch whose write failed
resubNextAbortOnError(ok, more) == IF more /\ ok THEN "rc_batch" ELSE "rc_spawn"

\* where the resubscription loop goes after writing a batch: a failed write is
\* only logged, so the next batch follows while there is one
resubNext(ok, more) == IF more THEN "rc_batch" ELSE "rc_spawn"

\* one iteration of the resubscription loop: the batch is written to the current
\* c.conn when that is not nil; a failed write is logged and the loop goes on
RcBatch(r, ok) ==
    /\ Running
    /\ r.pc = "rc_batch"
    /\ ok \in BOOLEAN
    /\ ok => conn \in sockOpen
    /\ LET batch == resubBatch(r.uniq, r.i, batchSize)
           more == r.i + batchSize < Len(r.uniq)
       IN  /\ sockSubs' = IF ok THEN [sockSubs EXCEPT ![conn] = @ \cup Range(batch)]
                          ELSE sockSubs
           /\ sockTried' = IF conn # 0 THEN [sockTried EXCEPT ![conn] = @ \cup Range(batch)]
                           ELSE sockTried
           /\ tasks' = Step(tasks, r,
                            [r EXCEPT !.pc = resubNext(ok, more),
                                      !.i = r.i + batchSize,
                                      !.att = IF conn # 0
                                              THEN Append(@, [params |-> batch, ok |-> ok])
                                              ELSE @])
    /\ UNCHANGED reconVars
    /\ UNCHANGED <<conn, nSocks, sockOpen, regVars, flagVars, batchSize, subscribedStreams,
                   sub, closer, panic, budgetVars, obsVars>>

\* the end of handleReconnect: `go c.readMessages()`
RcSpawn(r) ==
    /\ Running
    /\ r.pc = "rc_spawn"
    /\ tasks' = Spawn(Exit(tasks, r), TaskAt("rd_select"))
    /\ UNCHANGED reconVars
    /\ UNCHANGED <<netVars, regVars, flagVars, batchSize, subscribedStreams, sub, closer,
                   panic, budgetVars, obsVars>>

\* ------------------------------------------------------------------------
\* BatchSubscribeKlines / subscribeStreams
\* ------------------------------------------------------------------------
\* BatchSubscribeKlines(symbols, interval) is entered and the batches are cut
SubStart(symbols, interval) ==
    /\ Running
    /\ sub.pc = "idle"
    /\ sub.calls < MaxSubCalls
    /\ closer.calls = 0
    /\ LET batches == splitIntoBatches(symbols, batchSize)
       IN  sub' = IF Len(batches) = 0
                  THEN [IdleSub EXCEPT !.calls = sub.calls + 1, !.res = 0]
                  ELSE [IdleSub EXCEPT !.pc = "sub_lock", !.calls = sub.calls + 1,
                                       !.batches = batches, !.k = 1,
                                       !.interval = interval]
    /\ UNCHANGED reconVars
    /\ UNCHANGED <<netVars, regVars, flagVars, batchSize, subscribedStreams, tasks, closer,
                   panic, budgetVars, obsVars>>

\* BatchSubscribeKlines(symbols, interval) is entered: splitIntoBatches starts
\* with i = 0 and no batch
SplitStart(symbols, interval) ==
    /\ Running
    /\ sub.pc = "idle"
    /\ sub.calls < MaxSubCalls
    /\ closer.calls = 0
    /\ sub' = [IdleSub EXCEPT !.pc = "split", !.calls = sub.calls + 1,
                              !.symbols = symbols, !.interval = interval]
    /\ UNCHANGED reconVars
    /\ UNCHANGED <<netVars, regVars, flagVars, batchSize, subscribedStreams, tasks, closer,
                   panic, budgetVars, obsVars>>

\* one test of `i < len(symbols)` in splitIntoBatches and, when it holds, one
\* iteration: end := i + batchSize, cut to len(symbols) when beyond it;
\* symbols[i:end] panics when end < i; the slice is appended and i += batchSize.
\* When the test fails the batches are returned to BatchSubscribeKlines.
SplitStep ==
    /\ Running
    /\ sub.pc = "split"
    /\ Len(sub.batches) < MaxBatches
    /\ LET len == Len(sub.symbols)
           end == IF sub.i + batchSize > len THEN len ELSE sub.i + batchSize
       IN  IF sub.i < len
           THEN IF end < sub.i
                THEN /\ panic' = "slice bounds out of range"
                     /\ UNCHANGED sub
                ELSE /\ sub' = [sub EXCEPT !.batches = Append(@, SubSeq(sub.symbols, sub.i + 1, end)),
                                           !.i = sub.i + batchSize]
                     /\ UNCHANGED panic
           ELSE /\ sub' = IF Len(sub.batches) = 0
                          THEN [IdleSub EXCEPT !.calls = sub.calls, !.res = 0]
                          ELSE [sub EXCEPT !.pc = "sub_lock", !.k = 1]
                /\ UNCHANGED panic
    /\ UNCHANGED reconVars
    /\ UNCHANGED <<netVars, regVars, flagVars, batchSize, subscribedStreams, tasks, closer,
                   budgetVars, obsVars>>

\* the stream names of a batch
batchStreams(batch, interval) == [j \in 1..Len(batch) |-> StreamKey(batch[j], interval)]

\* a batch loop that logs the failed batch and goes on with the next one
onSubscribeErrorSkipBatch(s) ==
    IF s.k < Len(s.batches)
    THEN [s EXCEPT !.pc = "sub_lock", !.k = s.k + 1, !.streams = <<>>, !.sock = 0]
    ELSE [IdleSub EXCEPT !.calls = s.calls, !.res = s.k]

\* subscribeStreams returned an error for batch s.k: BatchSubscribeKlines returns
\* at once with an error that names the batch
onSubscribeError(s) == [IdleSub EXCEPT !.calls = s.calls, !.res = s.k]

\* subscribeStreams, the locked section: a nil handle is an error; otherwise the
\* streams are recorded and the handle is taken
SubLock ==
    /\ Running
    /\ sub.pc = "sub_lock"
    /\ LET streams == batchStreams(sub.batches[sub.k], sub.interval)
       IN  IF conn = 0
           THEN /\ sub' = onSubscribeError(sub)
                /\ UNCHANGED subscribedStreams
           ELSE /\ subscribedStreams' = subscribedStreams \o streams
                /\ sub' = [sub EXCEPT !.pc = "sub_write", !.streams = streams, !.sock = conn]
    /\ UNCHANGED reconVars
    /\ UNCHANGED <<netVars, regVars, flagVars, batchSize, tasks, closer, panic, budgetVars,
                   obsVars>>

\* subscribeStreams, conn.WriteJSON(subscribeMsg) on the handle taken; on an error
\* BatchSubscribeKlines returns it with the batch number, else it goes on to the
\* next batch after 100 ms
SubWrite(ok) ==
    /\ Running
    /\ sub.pc = "sub_write"
    /\ ok \in BOOLEAN
    /\ ok => sub.sock \in sockOpen
    /\ sockTried' = [sockTried EXCEPT ![sub.sock] = @ \cup Range(sub.streams)]
    /\ IF ok
       THEN /\ sockSubs' = [sockSubs EXCEPT ![sub.sock] = @ \cup Range(sub.streams)]
            /\ sub' = IF sub.k < Len(sub.batches)
                      THEN [sub EXCEPT !.pc = "sub_lock", !.k = sub.k + 1, !.streams = <<>>,
                                       !.sock = 0]
                      ELSE [IdleSub EXCEPT !.calls = sub.calls, !.res = 0]
       ELSE /\ sub' = onSubscribeError(sub)
            /\ UNCHANGED sockSubs
    /\ UNCHANGED reconVars
    /\ UNCHANGED <<conn, nSocks, sockOpen, regVars, flagVars, batchSize, subscribedStreams,
                   tasks, closer, panic, budgetVars, obsVars>>

\* ------------------------------------------------------------------------
\* Close
\* ------------------------------------------------------------------------
\* Close, first statement: c.reconnect = false
CloseFlag ==
    /\ Running
    /\ closer.pc = "idle"
    /\ closer.calls < MaxCloseCalls
    /\ reconnect' = FALSE
    /\ closer' = [pc |-> "cl_done", calls |-> closer.calls + 1]
    /\ UNCHANGED reconVars
    /\ UNCHANGED <<netVars, regVars, doneClosed, batchSize, subscribedStreams, tasks, sub,
                   panic, budgetVars, obsVars>>

\* close(c.done): closing a channel that is already closed panics
closeDone == IF doneClosed THEN "close of closed channel" ELSE "none"

CloseDone ==
    /\ Running
    /\ closer.pc = "cl_done"
    /\ panic' = closeDone
    /\ doneClosed' = TRUE
    /\ closer' = IF panic' = "none" THEN [closer EXCEPT !.pc = "cl_lock"] ELSE closer
    /\ UNCHANGED reconVars
    /\ UNCHANGED <<netVars, regVars, reconnect, batchSize, subscribedStreams, tasks, sub,
                   budgetVars, obsVars>>

\* Close, the locked section: close and clear the handle, close and delete every
\* registered subscriber channel
CloseLock ==
    /\ Running
    /\ closer.pc = "cl_lock"
    /\ sockOpen' = sockOpen \ {conn}
    /\ conn' = 0
    /\ chans' = [c \in 1..Len(chans) |->
                   IF \E k \in AllKeys : subscribers[k] = c
                   THEN [chans[c] EXCEPT !.closed = TRUE, !.closes = @ + 1]
                   ELSE chans[c]]
    /\ subscribers' = [k \in AllKeys |-> 0]
    /\ closer' = [closer EXCEPT !.pc = "idle"]
    /\ UNCHANGED reconVars
    /\ UNCHANGED <<nSocks, sockSubs, sockTried, flagVars, batchSize, subscribedStreams, tasks, sub,
                   panic, budgetVars, obsVars>>

\* ------------------------------------------------------------------------
\* analyzePerformanceFromBinance: folding fills into closed trades
\* ------------------------------------------------------------------------
\* Position{}
ZeroPosition == [openPrice |-> 0, openTime |-> 0, totalQty |-> 0, totalCost |-> 0,
                 realizedPnl |-> 0, commission |-> 0, tradeCount |-> 0]

Abs(x) == IF x < 0 THEN -x ELSE x
Sign(x) == IF x < 0 THEN -1 ELSE IF x > 0 THEN 1 ELSE 0

RECURSIVE GCD(_, _)
GCD(x, y) == IF y = 0 THEN x ELSE GCD(y, x % y)

\* a float64 quotient n / d kept exact, in lowest terms with den >= 0; den = 0 is
\* what a division by zero leaves in a float64: +Inf (1/0), -Inf (-1/0) or NaN (0/0)
Quot(n, d) ==
    IF d = 0 THEN [num |-> Sign(n), den |-> 0]
    ELSE LET g == GCD(Abs(n), Abs(d))
         IN  [num |-> Sign(d) * (n \div g), den |-> Abs(d) \div g]

\* the product a * k of a quotient and a number
QuotTimes(a, k) ==
    IF a.den = 0 THEN Quot(a.num * Sign(k), 0)
    ELSE LET g == GCD(Abs(k), a.den) IN Quot(a.num * (k \div g), a.den \div g)

\* the quotient a / k of a quotient and a number
QuotOver(a, k) ==
    IF a.den = 0 THEN Quot(IF k < 0 THEN -a.num ELSE a.num, 0)
    ELSE LET g == GCD(Abs(a.num), Abs(k))
         IN  IF g = 0 THEN Quot(0, 0) ELSE Quot(a.num \div g, a.den * (k \div g))

\* the quotient k / a of a number and a quotient
OverQuot(k, a) ==
    IF a.den = 0 THEN (IF a.num = 0 THEN Quot(0, 0) ELSE Quot(0, 1))
    ELSE LET g == GCD(Abs(k), Abs(a.num))
         IN  IF g = 0 THEN Quot(0, 0) ELSE Quot((k \div g) * a.den, a.num \div g)

\* the quotient equals the number n
QuotIs(a, n) == a.den # 0 /\ a.num = n * a.den

\* `a > 0` for a quotient: true of +Inf, false of NaN
QuotPos(a) == a.num > 0

\* `a > n` for a finite quotient and a number
QuotGt(a, n) == a.den # 0 /\ a.num > n * a.den

\* the sum of two finite quotients
QuotAdd(a, b) ==
    LET g == GCD(a.den, b.den)
    IN  Quot(a.num * (b.den \div g) + b.num * (a.den \div g), (a.den \div g) * b.den)

\* the difference of two finite quotients
QuotSub(a, b) == QuotAdd(a, [b EXCEPT !.num = -b.num])

\* the product of two finite quotients
QuotMul(a, b) ==
    LET g1 == GCD(Abs(a.num), b.den)
        g2 == GCD(Abs(b.num), a.den)
    IN  Quot((a.num \div g1) * (b.num \div g2), (a.den \div g2) * (b.den \div g1))

\* the quotient a / b of two finite quotients; b = 0 gives +Inf, -Inf or NaN
QuotDiv(a, b) ==
    IF b.num = 0 THEN Quot(a.num, 0)
    ELSE QuotMul(a, [num |-> Sign(b.num) * b.den, den |-> Abs(b.num)])

\* &logger.PerformanceAnalysis{RecentTrades: []..., SymbolStats: map...}
EmptyAnalysis == [RecentTrades |-> <<>>, TotalTrades |-> 0, WinningTrades |-> 0,
                  LosingTrades |-> 0, AvgWin |-> 0, AvgLoss |-> 0,
                  WinRate |-> Quot(0, 1), ProfitFactor |-> Quot(0, 1),
                  SharpeRatio |-> [sgn |-> 0, sq |-> Quot(0, 1)],
                  SymbolStats |-> [y \in {} |-> 0]]

\* handlePerformance before any call has returned
NoAnswer == [fetch |-> "none", fallback |-> "none", status |-> 0, body |-> "none"]

\* the locals of a call that is about to enter the loops over the symbols syms
freshLocals(syms) ==
    [todo |-> syms, symbol |-> "", trades |-> <<>>, longPos |-> ZeroPosition,
     shortPos |-> ZeroPosition, analysis |-> EmptyAnalysis, stage |-> "fold"]

\* no second call
NoPeer == [running |-> 1, history |-> [y \in {} |-> <<>>], saved |-> freshLocals({}),
           mixed |-> FALSE]

\* analyzePerformanceFromBinance after GetAllTradeHistory has returned a history
\* of the symbols syms
InitRecon(syms) ==
    /\ todo = syms
    /\ symbol = ""
    /\ trades = <<>>
    /\ longPos = ZeroPosition
    /\ shortPos = ZeroPosition
    /\ analysis = EmptyAnalysis
    /\ stage = "fold"
    /\ handler = [NoAnswer EXCEPT !.fetch = "ok"]
    /\ peer = NoPeer

Init == InitMux /\ InitRecon(HistorySymbols)

\* `trade.Side == "BUY" && trade.PositionSide == "LONG" || trade.Side == "SELL" && ...`
isOpening(trade) ==
    \/ trade.Side = "BUY" /\ trade.PositionSide = "LONG"
    \/ trade.Side = "SELL" /\ trade.PositionSide = "SHORT"

\* a fold that puts every fill that is not LONG into the SHORT accumulator
trackedAny(trade) == TRUE

\* the fill is of a position side that has an accumulator; other fills are skipped
\* (`else { continue }`)
tracked(trade) == trade.PositionSide \in {"LONG", "SHORT"}

\* the opening branch
applyOpen(pos, trade) ==
    [pos EXCEPT !.openTime = IF pos.totalQty = 0 THEN trade.Time ELSE @,
                !.totalCost = @ + trade.Price * trade.Qty,
                !.totalQty = @ + trade.Qty,
                !.tradeCount = @ + 1]

\* the closing branch up to the test for a full close
applyClose(pos, trade) ==
    [pos EXCEPT !.realizedPnl = @ + trade.RealizedPnl,
                !.commission = @ + trade.Commission,
                !.totalQty = @ - trade.Qty,
                !.tradeCount = @ + 1]

\* a full-close test that takes every closing fill for a full close
fullyClosedAnyClose(pos) == pos.tradeCount > 0

\* a full-close test that misses a remainder of exactly 0.0001
fullyClosedStrict(pos) == pos.totalQty < Eps /\ pos.tradeCount > 0

\* `pos.totalQty <= 0.0001 && pos.tradeCount > 0`
fullyClosed(pos) == pos.totalQty <= Eps /\ pos.tradeCount > 0

\* the TradeOutcome built from the accumulator (after applyClose) and the closing fill
tradeOutcome(sym, pos, trade) ==
    LET quantity == pos.totalQty + trade.Qty
        avgOpenPrice == Quot(pos.totalCost, pos.totalQty + trade.Qty)
        positionValue == QuotTimes(avgOpenPrice, quantity)
        marginUsed == QuotOver(positionValue, DefaultLeverage)
        pnl == pos.realizedPnl - pos.commission
    IN  [Symbol |-> sym,
         Side |-> IF trade.PositionSide = "LONG" THEN "long" ELSE "short",
         Quantity |-> quantity,
         Leverage |-> DefaultLeverage,
         OpenPrice |-> avgOpenPrice,
         ClosePrice |-> trade.Price,
         PositionValue |-> positionValue,
         MarginUsed |-> marginUsed,
         PnL |-> pnl,
         PnLPct |-> QuotTimes(OverQuot(pnl, marginUsed), 100),
         Duration |-> trade.Time - pos.openTime,
         OpenTime |-> pos.openTime,
         CloseTime |-> trade.Time]

\* analysis.SymbolStats[symbol], created on first use
symbolStats(a, sym) ==
    IF sym \in DOMAIN a.SymbolStats THEN a.SymbolStats[sym]
    ELSE [Symbol |-> sym, TotalTrades |-> 0, WinningTrades |-> 0, LosingTrades |-> 0,
          TotalPnL |-> 0, WinRate |-> Quot(0, 1), AvgPnL |-> Quot(0, 1)]

\* the bookkeeping for one outcome: RecentTrades, the counters, the per-symbol stats
recordOutcome(a, o) ==
    LET st == symbolStats(a, o.Symbol)
        st2 == [st EXCEPT !.TotalTrades = @ + 1,
                          !.TotalPnL = @ + o.PnL,
                          !.WinningTrades = IF o.PnL > 0 THEN @ + 1 ELSE @,
                          !.LosingTrades = IF o.PnL < 0 THEN @ + 1 ELSE @]
    IN  [a EXCEPT !.RecentTrades = Append(@, o),
                  !.TotalTrades = @ + 1,
                  !.WinningTrades = IF o.PnL > 0 THEN @ + 1 ELSE @,
                  !.AvgWin = IF o.PnL > 0 THEN @ + o.PnL ELSE @,
                  !.LosingTrades = IF o.PnL < 0 THEN @ + 1 ELSE @,
                  !.AvgLoss = IF o.PnL < 0 THEN @ + o.PnL ELSE @,
                  !.SymbolStats = [y \in DOMAIN @ \cup {o.Symbol} |->
                                     IF y = o.Symbol THEN st2 ELSE @[y]]]

\* the outer loop takes the next symbol of tradeHistory (map order: any): fresh
\* longPos and shortPos
StartSymbol(sym) ==
    /\ stage = "fold"
    /\ sym \in todo
    /\ todo' = todo \ {sym}
    /\ symbol' = sym
    /\ trades' = <<>>
    /\ longPos' = ZeroPosition
    /\ shortPos' = ZeroPosition
    /\ UNCHANGED <<analysis, stage, handler, peer>>
    /\ UNCHANGED muxVars

\* one iteration of the inner loop, on the next fill of the current symbol
ProcessFill(fill) ==
    /\ stage = "fold"
    /\ symbol # ""
    /\ Len(trades) < MaxFills
    /\ LET trade == [Side |-> fill.Side, PositionSide |-> fill.PositionSide,
                     Qty |-> fill.Qty, Price |-> fill.Price,
                     RealizedPnl |-> fill.RealizedPnl, Commission |-> fill.Commission,
                     Time |-> Len(trades) + 1]
           pos == IF trade.PositionSide = "LONG" THEN longPos ELSE shortPos
           closedPos == applyClose(pos, trade)
           emits == ~isOpening(trade) /\ fullyClosed(closedPos)
           pos2 == IF isOpening(trade) THEN applyOpen(pos, trade)
                   ELSE IF emits THEN ZeroPosition
                   ELSE closedPos
       IN  /\ trades' = Append(trades, trade)
           /\ IF ~tracked(trade)
              THEN UNCHANGED <<longPos, shortPos, analysis>>
              ELSE /\ longPos' = IF trade.PositionSide = "LONG" THEN pos2 ELSE longPos
                   /\ shortPos' = IF trade.PositionSide = "SHORT" THEN pos2 ELSE shortPos
                   /\ analysis' = IF emits
                                  THEN recordOutcome(analysis, tradeOutcome(symbol, closedPos, trade))
                                  ELSE analysis
    /\ UNCHANGED <<todo, symbol, stage, handler, peer>>
    /\ UNCHANGED muxVars

\* ------------------------------------------------------------------------
\* analyzePerformanceFromBinance: the statistics computed after the loops
\* ------------------------------------------------------------------------
\* a profit factor without the cap at 100
profitFactorUncapped(avgWin, avgLoss, winning, losing) ==
    IF avgLoss.num # 0 /\ losing > 0
    THEN QuotDiv(avgWin, [avgLoss EXCEPT !.num = -avgLoss.num])
    ELSE IF winning > 0 /\ losing = 0 THEN Quot(100, 1)
    ELSE Quot(0, 1)

\* analysis.ProfitFactor from the averages and the counts
profitFactor(avgWin, avgLoss, winning, losing) ==
    IF avgLoss.num # 0 /\ losing > 0
    THEN LET pf == QuotDiv(avgWin, [avgLoss EXCEPT !.num = -avgLoss.num])
         IN  IF QuotGt(pf, 100) THEN Quot(100, 1) ELSE pf
    ELSE IF winning > 0 /\ losing = 0 THEN Quot(100, 1)
    ELSE Quot(0, 1)

\* a win rate over the trades that were won or lost, leaving out those with PnL 0
winRateOfDecided(winning, losing, total) ==
    IF winning + losing > 0 THEN QuotTimes(Quot(winning, winning + losing), 100)
    ELSE Quot(0, 1)

\* analysis.WinRate: winning / total * 100, left at 0 when there is no trade
winRate(winning, losing, total) ==
    IF total > 0 THEN QuotTimes(Quot(winning, total), 100) ELSE Quot(0, 1)

\* the return of one outcome, as a sequence of one element, or of none when no
\* positive base is found: margin used, else position value, else open price x
\* quantity (over the leverage when that is positive)
returnOf(o) ==
    IF QuotPos(o.MarginUsed) THEN <<OverQuot(o.PnL, o.MarginUsed)>>
    ELSE IF QuotPos(o.PositionValue) THEN <<OverQuot(o.PnL, o.PositionValue)>>
    ELSE IF QuotPos(o.OpenPrice) /\ o.Quantity > 0
    THEN LET estimate == QuotTimes(o.OpenPrice, o.Quantity)
             baseValue == IF o.Leverage > 0 THEN QuotOver(estimate, o.Leverage) ELSE estimate
         IN  IF QuotPos(baseValue) THEN <<OverQuot(o.PnL, baseValue)>> ELSE <<>>
    ELSE <<>>

\* the sum of a sequence of quotients
RECURSIVE QuotSum(_)
QuotSum(q) == IF q = <<>> THEN Quot(0, 1) ELSE QuotAdd(Head(q), QuotSum(Tail(q)))

\* `sumReturns / float64(len(returns))` is a float64: it is the mean of the
\* returns (TRUE) or a neighbour of it (FALSE). Two equal returns, or returns
\* that are all 0, are added and divided without rounding.
meanExactness(returns) ==
    IF Len(returns) <= 2 \/ \A j \in 1..Len(returns) : returns[j].num = 0
    THEN {TRUE}
    ELSE BOOLEAN

\* the returns of the outcomes that have a positive base, in order
returnsOf(outcomes) == Concat([j \in 1..Len(outcomes) |-> returnOf(outcomes[j])])

\* the population variance of the returns (divisor n)
varianceOf(returns) ==
    LET n == Len(returns)
        avgReturn == QuotOver(QuotSum(returns), n)
        sumSquaredDiff == QuotSum([j \in 1..n |->
                              QuotMul(QuotSub(returns[j], avgReturn),
                                      QuotSub(returns[j], avgReturn))])
    IN  QuotOver(sumSquaredDiff, n)

\* a Sharpe ratio over the sample deviation (divisor n - 1)
sharpeRatioSample(outcomes, exact) ==
    LET returns == returnsOf(outcomes)
        n == Len(returns)
        avgReturn == QuotOver(QuotSum(returns), n)
        variance == QuotOver(QuotTimes(varianceOf(returns), n), n - 1)
        square == QuotDiv(QuotMul(avgReturn, avgReturn), variance)
    IN  IF Len(outcomes) >= 2 /\ n >= 2 /\ QuotPos(variance)
        THEN [sgn |-> Sign(avgReturn.num),
              sq |-> IF QuotGt(square, 9) THEN Quot(9, 1) ELSE square]
        ELSE [sgn |-> 0, sq |-> Quot(0, 1)]

\* analysis.SharpeRatio as its sign and its square (the square root of the
\* variance is not a quotient): avgReturn / stdDev clipped to [-3, 3], or 0 when
\* fewer than two returns are valid or the computed deviation is 0. When the
\* returns have no spread and their mean was rounded, the computed deviation is
\* the rounding error, which is positive and below any return: the ratio is
\* clipped. A rounding of the mean of returns that have a spread changes the
\* ratio in its last digits only, which the quotient leaves out.
sharpeRatio(outcomes, exact) ==
    LET returns == returnsOf(outcomes)
        n == Len(returns)
        avgReturn == QuotOver(QuotSum(returns), n)
        variance == varianceOf(returns)
        square == QuotDiv(QuotMul(avgReturn, avgReturn), variance)
    IN  IF Len(outcomes) >= 2 /\ n >= 2 /\ QuotPos(variance)
        THEN [sgn |-> Sign(avgReturn.num),
              sq |-> IF QuotGt(square, 9) THEN Quot(9, 1) ELSE square]
        ELSE IF Len(outcomes) >= 2 /\ n >= 2 /\ ~exact
        THEN [sgn |-> Sign(avgReturn.num), sq |-> Quot(9, 1)]
        ELSE [sgn |-> 0, sq |-> Quot(0, 1)]

\* per-symbol ratios with a win rate over the trades that were won or lost
symbolRatiosOfDecided(st) ==
    IF st.TotalTrades > 0
    THEN [st EXCEPT !.WinRate = QuotTimes(Quot(st.WinningTrades,
                                               st.WinningTrades + st.LosingTrades), 100),
                    !.AvgPnL = Quot(st.TotalPnL, st.TotalTrades)]
    ELSE st

\* the per-symbol loop: win rate and average PnL of a symbol with trades
symbolRatios(st) ==
    IF st.TotalTrades > 0
    THEN [st EXCEPT !.WinRate = QuotTimes(Quot(st.WinningTrades, st.TotalTrades), 100),
                    !.AvgPnL = Quot(st.TotalPnL, st.TotalTrades)]
    ELSE st

\* the statistics of lines 1894-2012 set in the analysis a
withStatistics(a, exact) ==
    LET avgWin == IF a.WinningTrades > 0 THEN Quot(a.AvgWin, a.WinningTrades)
                  ELSE Quot(a.AvgWin, 1)
        avgLoss == IF a.LosingTrades > 0 THEN Quot(a.AvgLoss, a.LosingTrades)
                   ELSE Quot(a.AvgLoss, 1)
    IN  [a EXCEPT !.AvgWin = avgWin,
                  !.AvgLoss = avgLoss,
                  !.WinRate = winRate(a.WinningTrades, a.LosingTrades, a.TotalTrades),
                  !.ProfitFactor = profitFactor(avgWin, avgLoss, a.WinningTrades,
                                                a.LosingTrades),
                  !.SharpeRatio = sharpeRatio(a.RecentTrades, exact),
                  !.SymbolStats = [y \in DOMAIN @ |-> symbolRatios(@[y])]]

\* after the loops: the averages, the win rate, the profit factor, the Sharpe
\* ratio and the per-symbol ratios are computed and the analysis is returned
ComputeStats ==
    /\ stage = "fold"
    /\ todo = {}
    /\ \E exact \in meanExactness(returnsOf(analysis.RecentTrades)) :
          analysis' = withStatistics(analysis, exact)
    /\ stage' = "returned"
    /\ UNCHANGED <<todo, symbol, trades, longPos, shortPos, handler, peer>>
    /\ UNCHANGED muxVars

\* ------------------------------------------------------------------------
\* handlePerformance: the analysis of the exchange history, else of the local log
\* ------------------------------------------------------------------------
\* handlePerformance has found the trader and calls analyzePerformanceFromBinance
InitPerformance ==
    /\ InitMux
    /\ todo = {}
    /\ symbol = ""
    /\ trades = <<>>
    /\ longPos = ZeroPosition
    /\ shortPos = ZeroPosition
    /\ analysis = EmptyAnalysis
    /\ stage = "called"
    /\ handler = NoAnswer
    /\ peer = NoPeer

\* GetAllTradeHistory returns a history of the symbols syms: the analysis is built
FetchOk(syms) ==
    /\ stage = "called"
    /\ handler' = [handler EXCEPT !.fetch = "ok"]
    /\ todo' = syms
    /\ stage' = "fold"
    /\ UNCHANGED <<symbol, trades, longPos, shortPos, analysis, peer>>
    /\ UNCHANGED muxVars

\* an analysis that goes on with an empty history after a failed fetch
fetchErrorSwallowed(kind) == "fold"

\* `return nil, fmt.Errorf(...)`: the trader is not a FuturesTrader
\* ("unsupported") or GetAllTradeHistory failed ("err")
fetchError(kind) == "failed"

\* the type assertion or GetAllTradeHistory fails
FetchFails(kind) ==
    /\ stage = "called"
    /\ handler' = [handler EXCEPT !.fetch = kind]
    /\ stage' = fetchError(kind)
    /\ UNCHANGED <<todo, symbol, trades, longPos, shortPos, analysis, peer>>
    /\ UNCHANGED muxVars

\* err == nil: `c.JSON(http.StatusOK, performance)` with the exchange analysis
AnswerAnalysis ==
    /\ stage = "returned"
    /\ handler' = [handler EXCEPT !.status = 200, !.body = "exchange"]
    /\ stage' = "answered"
    /\ UNCHANGED <<todo, symbol, trades, longPos, shortPos, analysis, peer>>
    /\ UNCHANGED muxVars

\* err != nil: GetDecisionLogger().AnalyzePerformance(100) is called; its result
\* is answered with 200, its error with 500
answerFromLog(h, ok) ==
    IF ok THEN [h EXCEPT !.fallback = "ok", !.status = 200, !.body = "log"]
    ELSE [h EXCEPT !.fallback = "err", !.status = 500, !.body = "error"]

\* the fallback to the local decision log
Fallback(ok) ==
    /\ stage = "failed"
    /\ handler' = answerFromLog(handler, ok)
    /\ stage' = "answered"
    /\ UNCHANGED <<todo, symbol, trades, longPos, shortPos, analysis, peer>>
    /\ UNCHANGED muxVars

NextRecon ==
    \/ \E sym \in HistorySymbols : StartSymbol(sym)
    \/ \E fill \in FillSet : ProcessFill(fill)

SpecRecon == Init /\ [][NextRecon]_vars

\* fills of one position of 1.0 opened at 100 (margin 20): closes that win 2.0,
\* lose 0.8, lose 0.01 or make nothing, a short position closed with a win, and
\* nothing else
StatFills ==
    { [Side |-> "BUY",  PositionSide |-> "LONG",  Qty |-> 10000, Price |-> 100,
       RealizedPnl |-> 0, Commission |-> 0],
      [Side |-> "SELL", PositionSide |-> "LONG",  Qty |-> 10000, Price |-> 102,
       RealizedPnl |-> 20400, Commission |-> 400],
      [Side |-> "SELL", PositionSide |-> "LONG",  Qty |-> 10000, Price |-> 99,
       RealizedPnl |-> -7600, Commission |-> 400],
      [Side |-> "SELL", PositionSide |-> "LONG",  Qty |-> 10000, Price |-> 100,
       RealizedPnl |-> -100, Commission |-> 0],
      [Side |-> "SELL", PositionSide |-> "LONG",  Qty |-> 10000, Price |-> 100,
       RealizedPnl |-> 400, Commission |-> 400],
      [Side |-> "SELL", PositionSide |-> "SHORT", Qty |-> 10000, Price |-> 100,
       RealizedPnl |-> 0, Commission |-> 0],
      [Side |-> "BUY",  PositionSide |-> "SHORT", Qty |-> 10000, Price |-> 98,
       RealizedPnl |-> 20400, Commission |-> 400] }

\* the fold over one symbol followed by the statistics
NextStats ==
    \/ \E sym \in HistorySymbols : StartSymbol(sym)
    \/ \E fill \in StatFills : ProcessFill(fill)
    \/ ComputeStats

SpecStats == Init /\ [][NextStats]_vars

\* one request to handlePerformance
NextPerformance ==
    \/ FetchOk(HistorySymbols)
    \/ \E kind \in {"err", "unsupported"} : FetchFails(kind)
    \/ \E sym \in HistorySymbols : StartSymbol(sym)
    \/ \E fill \in StatFills : ProcessFill(fill)
    \/ ComputeStats
    \/ AnswerAnalysis
    \/ \E ok \in BOOLEAN : Fallback(ok)

SpecPerformance == InitPerformance /\ [][NextPerformance]_vars

\* a history of two symbols, folded one after the other
TwoSymbols == {"BTCUSDT", "ETHUSDT"}

\* fills that open or close a whole position of 1.0, and one of no position side
SideFills == {f \in FillSet : f.Qty = 10000 /\ f.Price \in {90, 100, 110}}

InitTwoSymbols == InitMux /\ InitRecon(TwoSymbols)

NextTwoSymbols ==
    \/ \E sym \in TwoSymbols : StartSymbol(sym)
    \/ \E fill \in SideFills : ProcessFill(fill)

SpecTwoSymbols == InitTwoSymbols /\ [][NextTwoSymbols]_vars

\* fills of one position of 1.0 opened at 100 (margin 20): closes that win 2.0 or
\* 1.5, lose 0.8 or 0.6, or make nothing
RatioFills ==
    { [Side |-> "BUY",  PositionSide |-> "LONG",  Qty |-> 10000, Price |-> 100,
       RealizedPnl |-> 0, Commission |-> 0],
      [Side |-> "SELL", PositionSide |-> "LONG",  Qty |-> 10000, Price |-> 102,
       RealizedPnl |-> 20400, Commission |-> 400],
      [Side |-> "SELL", PositionSide |-> "LONG",  Qty |-> 10000, Price |-> 101,
       RealizedPnl |-> 15400, Commission |-> 400],
      [Side |-> "SELL", PositionSide |-> "LONG",  Qty |-> 10000, Price |-> 99,
       RealizedPnl |-> -7600, Commission |-> 400],
      [Side |-> "SELL", PositionSide |-> "LONG",  Qty |-> 10000, Price |-> 99,
       RealizedPnl |-> -5600, Commission |-> 400],
      [Side |-> "SELL", PositionSide |-> "LONG",  Qty |-> 10000, Price |-> 100,
       RealizedPnl |-> 400, Commission |-> 400] }

\* the fill continues a history in which a position is opened when there is none
\* and closed when there is one; only the first fill of a symbol may close a
\* position that was opened before the history begins
inOrder(fill) ==
    IF isOpening(fill) THEN longPos.totalQty = 0
    ELSE longPos.totalQty > 0 \/ trades = <<>>

\* the fold over such histories of two symbols followed by the statistics
NextTwoStats ==
    \/ \E sym \in TwoSymbols : StartSymbol(sym)
    \/ \E fill \in RatioFills : inOrder(fill) /\ ProcessFill(fill)
    \/ ComputeStats

SpecTwoStats == InitTwoSymbols /\ [][NextTwoStats]_vars

\* ------------------------------------------------------------------------
\* two calls of analyzePerformanceFromBinance on the same history
\* ------------------------------------------------------------------------
OpenLong == [Side |-> "BUY",  PositionSide |-> "LONG",  Qty |-> 10000, Price |-> 100,
             RealizedPnl |-> 0, Commission |-> 0]
CloseWin == [Side |-> "SELL", PositionSide |-> "LONG",  Qty |-> 10000, Price |-> 102,
             RealizedPnl |-> 20400, Commission |-> 400]
CloseLoss == [Side |-> "SELL", PositionSide |-> "LONG",  Qty |-> 10000, Price |-> 99,
              RealizedPnl |-> -7600, Commission |-> 400]
CloseFlat == [Side |-> "SELL", PositionSide |-> "LONG",  Qty |-> 10000, Price |-> 100,
              RealizedPnl |-> 400, Commission |-> 400]

\* the fills of one symbol: a trade won; a trade lost and a trade that made
\* nothing; a closing fill of an older position and a trade lost
CallFillLists == { <<OpenLong, CloseWin>>,
                   <<OpenLong, CloseLoss, OpenLong, CloseFlat>>,
                   <<CloseWin, OpenLong, CloseLoss>> }

\* tradeHistory as both calls get it
CallHistories == [TwoSymbols -> CallFillLists]

\* the locals of the running call
locals == [todo |-> todo, symbol |-> symbol, trades |-> trades, longPos |-> longPos,
           shortPos |-> shortPos, analysis |-> analysis, stage |-> stage]

\* two calls have been given the same history and are about to enter the loops
InitCalls ==
    /\ InitMux
    /\ todo = TwoSymbols
    /\ symbol = ""
    /\ trades = <<>>
    /\ longPos = ZeroPosition
    /\ shortPos = ZeroPosition
    /\ analysis = EmptyAnalysis
    /\ stage = "fold"
    /\ handler = [NoAnswer EXCEPT !.fetch = "ok"]
    /\ \E h \in CallHistories :
          peer = [running |-> 1, history |-> h, saved |-> freshLocals(TwoSymbols),
                  mixed |-> FALSE]

\* calls that keep one analysis between them
switchSharingAnalysis(saved, current) == [saved EXCEPT !.analysis = current.analysis]

\* the locals a call finds when it is scheduled again: its own (analysis, longPos
\* and shortPos are created by the call, lines 1782-1805)
switchTo(saved, current) == saved

\* the call is inside the loops
InLoops(l) == l.stage = "fold" /\ l.symbol # ""

\* the scheduler suspends the running call and runs the other one
Yield ==
    /\ DOMAIN peer.history # {}
    /\ LET next == switchTo(peer.saved, locals)
       IN  /\ todo' = next.todo
           /\ symbol' = next.symbol
           /\ trades' = next.trades
           /\ longPos' = next.longPos
           /\ shortPos' = next.shortPos
           /\ analysis' = next.analysis
           /\ stage' = next.stage
    /\ peer' = [peer EXCEPT !.running = 3 - @,
                            !.saved = locals,
                            !.mixed = @ \/ (InLoops(locals) /\ InLoops(peer.saved))]
    /\ UNCHANGED handler
    /\ UNCHANGED muxVars

\* the inner loop of the running call has read every fill of its symbol
Exhausted == IF symbol = "" THEN TRUE ELSE Len(trades) = Len(peer.history[symbol])

\* both calls, each reading the fills of the history in order
NextCalls ==
    \/ \E sym \in TwoSymbols : Exhausted /\ StartSymbol(sym)
    \/ \E fill \in StatFills :
          /\ symbol # ""
          /\ Len(trades) < Len(peer.history[symbol])
          /\ fill = peer.history[symbol][Len(trades) + 1]
          /\ ProcessFill(fill)
    \/ Exhausted /\ ComputeStats
    \/ Yield

SpecCalls == InitCalls /\ [][NextCalls]_vars

Next ==
    \/ ConnectOk
    \/ ConnectFail
    \/ \E r \in Tasks : RdSelect(r)
    \/ \E r \in Tasks : RdConn(r)
    \/ \E r \in Tasks, k \in AllKeys, d \in Payloads : ReadFrame(r, k, d)
    \/ \E r \in Tasks : ReadOther(r)
    \/ \E r \in Tasks : RdSend(r)
    \/ \E r \in Tasks, kind \in {"timeout", "error"} : ReadFail(r, kind)
    \/ \E r \in Tasks : ReadClosed(r)
    \/ \E c \in 1..MaxAddSubs : Consume(c)
    \/ \E k \in AllKeys, n \in BufferSizes : AddSubscriber(k, n)
    \/ \E r \in Tasks : RcEntry(r)
    \/ \E r \in Tasks : RcDialOk(r)
    \/ \E r \in Tasks : RcDialFail(r)
    \/ \E r \in Tasks : RcSnap(r)
    \/ \E r \in Tasks, ok \in BOOLEAN : RcBatch(r, ok)
    \/ \E r \in Tasks : RcSpawn(r)
    \/ \E l \in SymbolLists, i \in Intervals : SubStart(l, i)
    \/ SubLock
    \/ \E ok \in BOOLEAN : SubWrite(ok)
    \/ CloseFlag
    \/ CloseDone
    \/ CloseLock
    \/ \E sym \in HistorySymbols : StartSymbol(sym)
    \/ \E fill \in FillSet : ProcessFill(fill)
    \/ ComputeStats
    \/ FetchOk(HistorySymbols)
    \/ \E kind \in {"err", "unsupported"} : FetchFails(kind)
    \/ AnswerAnalysis
    \/ \E ok \in BOOLEAN : Fallback(ok)
    \/ Yield
    \/ \E l \in SymbolLists, i \in Intervals : SplitStart(l, i)
    \/ SplitStep

Spec == Init /\ [][Next]_vars

\* The connection life cycle with subscriptions: every action but the delivery of
\* data frames to subscriber channels
NextLife ==
    \/ ConnectOk
    \/ ConnectFail
    \/ \E r \in Tasks : RdSelect(r)
    \/ \E r \in Tasks : RdConn(r)
    \/ \E r \in Tasks : ReadOther(r)
    \/ \E r \in Tasks, kind \in {"timeout", "error"} : ReadFail(r, kind)
    \/ \E r \in Tasks : ReadClosed(r)
    \/ \E r \in Tasks : RcEntry(r)
    \/ \E r \in Tasks : RcDialOk(r)
    \/ \E r \in Tasks : RcDialFail(r)
    \/ \E r \in Tasks : RcSnap(r)
    \/ \E r \in Tasks, ok \in BOOLEAN : RcBatch(r, ok)
    \/ \E r \in Tasks : RcSpawn(r)
    \/ \E l \in SymbolLists, i \in Intervals : SubStart(l, i)
    \/ SubLock
    \/ \E ok \in BOOLEAN : SubWrite(ok)
    \/ CloseFlag
    \/ CloseDone
    \/ CloseLock

SpecLife == Init /\ [][NextLife]_vars

\* The feed on one connection: subscriptions, delivery to subscriber channels and
\* Close; the network never fails a read
NextFeed ==
    \/ ConnectOk
    \/ \E r \in Tasks : RdSelect(r)
    \/ \E r \in Tasks : RdConn(r)
    \/ \E r \in Tasks, k \in AllKeys, d \in Payloads : ReadFrame(r, k, d)
    \/ \E r \in Tasks : ReadOther(r)
    \/ \E r \in Tasks : RdSend(r)
    \/ \E r \in Tasks : ReadClosed(r)
    \/ \E c \in 1..MaxAddSubs : Consume(c)
    \/ \E k \in AllKeys, n \in BufferSizes : AddSubscriber(k, n)
    \/ \E l \in SymbolLists, i \in Intervals : SubStart(l, i)
    \/ SubLock
    \/ \E ok \in BOOLEAN : SubWrite(ok)
    \/ CloseFlag
    \/ CloseDone
    \/ CloseLock

SpecFeed == Init /\ [][NextFeed]_vars

\* The life cycle under fair scheduling: a goroutine that can run does run, and
\* a dial that is retried forever eventually succeeds
SpecLifeFair ==
    /\ Init
    /\ [][NextLife]_vars
    /\ WF_vars(\E r \in Tasks : RcEntry(r))
    /\ SF_vars(\E r \in Tasks : RcDialOk(r))

\* symbol lists long enough to be cut into more than one batch
LongSymbolLists ==
    {<<"BTCUSDT", "ethusdt", "SOLUSDT">>, <<"SOLUSDT", "BTCUSDT", "ETHUSDT", "ethusdt">>}

\* Connect, BatchSubscribeKlines on longer lists, a failing socket and Close
NextSub ==
    \/ ConnectOk
    \/ ConnectFail
    \/ \E r \in Tasks : RdSelect(r)
    \/ \E r \in Tasks : RdConn(r)
    \/ \E r \in Tasks : ReadClosed(r)
    \/ \E symbols \in LongSymbolLists, interval \in Intervals : SubStart(symbols, interval)
    \/ SubLock
    \/ \E ok \in BOOLEAN : SubWrite(ok)
    \/ CloseFlag
    \/ CloseDone
    \/ CloseLock

SpecSub == Init /\ [][NextSub]_vars

\* a client constructed with any batch size
InitBatching == InitClient(AnyBatchSizes) /\ InitRecon(HistorySymbols)

\* Connect and BatchSubscribeKlines with the loop of splitIntoBatches taken one
\* iteration at a time, on lists of 0, 3 and 4 symbols
NextBatching ==
    \/ ConnectOk
    \/ \E symbols \in LongSymbolLists \cup {<<>>}, interval \in Intervals :
          SplitStart(symbols, interval)
    \/ SplitStep
    \/ SubLock
    \/ \E ok \in BOOLEAN : SubWrite(ok)

SpecBatching == InitBatching /\ [][NextBatching]_vars

\* ------------------------------------------------------------------------
\* Properties of the multiplexer
\* ------------------------------------------------------------------------
\* the goroutines inside the read loop of readMessages
ReaderCount == BagCardinality([r \in {x \in Tasks : x.pc \in ReaderPcs} |-> tasks[r]])

\* a reconnect that has dialled and has not yet finished resubscribing
Resubscribing(r) == r.pc \in {"rc_snap", "rc_batch"}

NoDuplicates(q) == \A a, b \in 1..Len(q) : a # b => q[a] # q[b]

\* C1: Close is idempotent: no call of Close panics, no channel is closed twice,
\* and when a call has returned the registry is empty and the handle is nil.
C1_CloseIdempotent ==
    /\ panic # "close of closed channel"
    /\ \A c \in 1..Len(chans) : chans[c].closes <= 1
    /\ (closer.pc = "idle" /\ closer.calls > 0) =>
          /\ conn = 0
          /\ \A k \in AllKeys : subscribers[k] = 0

\* C2: at most one goroutine is inside the read loop at any time.
C2_SingleReader == ReaderCount <= 1

\* C3: after a reconnect has dialled, no read loop reads the new socket until the
\* reconnect has sent its resubscription batches.
C3_ResubscribeBeforeRead ==
    \A r \in Tasks : Resubscribing(r) =>
        ~ \E rd \in Tasks : rd.pc \in {"rd_read", "rd_send"} /\ rd.sock = r.inst

\* the keys of the frames a reconnect has written successfully, in order
sentKeys(r) == Concat([j \in 1..Len(r.att) |-> IF r.att[j].ok THEN r.att[j].params ELSE <<>>])

\* the keys of the frames a reconnect has handed to WriteJSON, in order
attemptedKeys(r) == Concat([j \in 1..Len(r.att) |-> r.att[j].params])

C8_NonBlockingDelivery ==
    /\ [](\A r \in Tasks : (r.pc = "rd_send" /\ Running) => ENABLED RdSend(r))
    /\ [][\A r \in Tasks :
            (r.pc = "rd_send" /\ tasks' = Step(tasks, r, TaskAt("rd_select"))) =>
                IF Len(chans[r.ch].buf) >= chans[r.ch].cap
                THEN chans' = chans
                ELSE chans' = [chans EXCEPT ![r.ch].buf = Append(@, r.data)]]_vars

\* a channel is full after a drop and never drained, and a later frame reached
\* another channel
C8_Witness ==
    /\ afterDrop
    /\ \E c \in dropped : chans[c].cap = 1 /\ Len(chans[c].buf) = 1

\* C9: while the client is not shut down, a failed read of either kind puts the
\* failing goroutine into the reconnect procedure (its 3 s sleep) and changes
\* nothing any caller sees.
C9_ReadFailureReconnects ==
    [][(readFails' # readFails /\ reconnect) =>
          /\ \E r \in Tasks : r.pc = "rd_read" /\ tasks' = Step(tasks, r, TaskAt("rc_sleep"))
          /\ UNCHANGED <<sub, closer, connectRes, panic, conn>>]_vars

\* a read failed while the client was not shut down and its goroutine is asleep
\* in the reconnect procedure
C9_Witness ==
    /\ readFails > 0
    /\ closer.calls = 0
    /\ \E r \in Tasks : r.pc = "rc_sleep"

\* C10: while Close is not called, a goroutine in the reconnect procedure leads to
\* a state with a connection installed and a read loop running.
C10_ReconnectEventually ==
    (\E r \in Tasks : r.pc \in {"rc_entry", "rc_sleep"})
        ~> (closer.calls > 0 \/ (conn \in sockOpen /\ conn > 1 /\ ReaderCount > 0))

\* the client is connected again after a dial failed during reconnection
C10_Witness ==
    /\ dialFails > 0
    /\ closer.calls = 0
    /\ conn \in sockOpen
    /\ conn > 1
    /\ ReaderCount > 0

\* the first call of Close has returned
CloseReturned == closer.calls > 1 \/ (closer.calls = 1 /\ closer.pc = "idle")

\* C11: Close, called in any state of the client, runs to its end, and once it has
\* returned the handle is nil and stays nil, no socket is dialled, no goroutine
\* takes up reading a socket and no SUBSCRIBE frame reaches a socket.
C11_ClosedIsTerminal ==
    [][/\ (closer.calls = 1 /\ closer.pc # "idle") => panic' = "none"
       /\ CloseReturned =>
             /\ conn = 0 /\ conn' = 0
             /\ nSocks' = nSocks
             /\ sockSubs' = sockSubs
             /\ \A r \in BagToSet(tasks') : r.pc = "rd_read" => r \in Tasks]_vars

\* the stream keys whose registry entry is channel c
KeysOf(c) == {k \in AllKeys : subscribers[k] = c}

\* C12: every key is registered to at most one channel and no channel serves two
\* keys; a channel that is still open is the one registered for its key, so a
\* handle replaced by a later AddSubscriber is not left open, and after Close has
\* returned no channel is open.
C12_OneLiveHandlePerKey ==
    /\ \A k \in AllKeys : subscribers[k] \in 0..Len(chans)
    /\ \A c \in 1..Len(chans) :
          /\ Cardinality(KeysOf(c)) <= 1
          /\ ~chans[c].closed => KeysOf(c) # {}
    /\ CloseReturned => \A c \in 1..Len(chans) : chans[c].closed

\* the step in which BatchSubscribeKlines returns an error
SubscribeFails == sub.pc \in {"sub_lock", "sub_write"} /\ sub'.pc = "idle" /\ sub'.res # 0

\* the frames of the batches before batch k of the running call are on the socket
EarlierBatchesSent(s) ==
    s.pc \in {"sub_lock", "sub_write"} =>
        \A j \in 1..(s.k - 1) : \A n \in 1..Len(s.batches[j]) :
            (ToLower(s.batches[j][n]) \o "@kline_" \o s.interval) \in sockSubs[1]

\* C13: BatchSubscribeKlines cuts the symbol list into consecutive batches in input
\* order, all of batchSize symbols but the last, which has 1..batchSize; the
\* batches concatenated are the input; each batch is sent as one frame whose
\* params are, symbol by symbol, the lower-cased symbol followed by @kline_ and the
\* interval; and a call returns nil only after the frame of its last batch.
C13_BatchesPartitionInput ==
    [][/\ (sub.pc = "idle" /\ sub'.calls = sub.calls + 1) =>
             LET b == sub'.batches
             IN  /\ Concat(b) \in LongSymbolLists
                 /\ \A j \in 1..(Len(b) - 1) : Len(b[j]) = batchSize
                 /\ Len(b[Len(b)]) \in 1..batchSize
                 /\ sub'.pc = "sub_lock" /\ sub'.k = 1
       /\ (sub.pc = "sub_lock" /\ sub'.pc = "sub_write") =>
             LET batch == sub.batches[sub.k]
             IN  /\ sub'.streams = [n \in 1..Len(batch) |->
                                      ToLower(batch[n]) \o "@kline_" \o sub.interval]
                 /\ sub'.k = sub.k /\ sub'.batches = sub.batches
       /\ (sub.pc = "sub_write" /\ sub' # sub /\ ~SubscribeFails) =>
             /\ sockSubs' = [sockSubs EXCEPT ![sub.sock] = @ \cup Range(sub.streams)]
             /\ IF sub.k < Len(sub.batches)
                THEN sub'.pc = "sub_lock" /\ sub'.k = sub.k + 1 /\ sub'.batches = sub.batches
                ELSE sub'.pc = "idle" /\ sub'.res = 0
       /\ EarlierBatchesSent(sub)']_vars

\* a call is sending its second batch, shorter than batchSize, after a first batch
\* of batchSize symbols
C13_Witness ==
    /\ sub.pc = "sub_write"
    /\ sub.k = 2
    /\ Len(sub.batches) = 2
    /\ Len(sub.batches[1]) = batchSize
    /\ Len(sub.batches[2]) < batchSize
    /\ "ethusdt@kline_1m" \in sockSubs[sub.sock]

\* C14: when the frame of batch k cannot be sent (the write fails, or the handle
\* is nil) BatchSubscribeKlines returns at once with an error naming batch k: that
\* step sends nothing, the frames of the batches before k are on the socket, and a
\* call that has returned sends no further frame.
C14_FailFast ==
    [][/\ (sub.pc = "sub_lock" /\ conn = 0 /\ sub' # sub) => SubscribeFails
       /\ SubscribeFails =>
             /\ sub'.res = sub.k
             /\ sockSubs' = sockSubs
             /\ EarlierBatchesSent(sub)
       /\ sub.pc = "idle" =>
             \A n \in 1..Len(sockSubs) : sockSubs'[n] = sockSubs[n]]_vars

\* the call failed at its second batch and only the first batch is on the socket
C14_Witness ==
    /\ sub.pc = "idle"
    /\ sub.calls = 1
    /\ sub.res = 2
    /\ Cardinality(sockSubs[1]) = batchSize

\* C15: a Connect of the caller whose dial fails returns an error and changes
\* nothing else: the handle and the sockets are as before and no goroutine (read
\* loop or reconnect) is started; the handle is replaced by a socket only in a step
\* that dials it successfully, and that step starts exactly one read loop.
C15_DialFailureReturned ==
    [][/\ (connectRes' # connectRes /\ connectRes' = "err") =>
             /\ UNCHANGED <<netVars, tasks, dialFails>>
       /\ (connectRes' # connectRes /\ connectRes' = "ok") =>
             /\ conn' = nSocks + 1 /\ nSocks' = nSocks + 1
             /\ tasks' = Spawn(tasks, TaskAt("rd_select"))
       /\ (conn' # conn /\ conn' # 0) =>
             /\ nSocks' = nSocks + 1 /\ conn' = nSocks'
             /\ conn' \in sockOpen'
             /\ BagCardinality(tasks') = BagCardinality(tasks) + 1]_vars

\* the caller's Connect has returned an error and the client is as it was built
C15_Witness ==
    /\ connectRes = "err"
    /\ conn = 0
    /\ nSocks = 0
    /\ tasks = EmptyBag

\* C16: an iteration of the resubscription loop, whether its write succeeds or
\* fails, leaves c.subscribedStreams as it was and goes on to the next batch while
\* one is left; after the last batch the goroutine starts a read loop; so while
\* Close is not called a reconnect reaches its end with every batch attempted.
C16_ResubscribeToleratesFailure ==
    [][\A r \in Tasks :
          /\ (r.pc = "rc_batch" /\ CopiesIn(r, tasks') < CopiesIn(r, tasks)) =>
                /\ subscribedStreams' = subscribedStreams
                /\ \E r2 \in BagToSet(tasks') :
                      /\ tasks' = Step(tasks, r, r2)
                      /\ r2.uniq = r.uniq
                      /\ r2.i = r.i + batchSize
                      /\ r2.pc = IF r2.i < Len(r.uniq) THEN "rc_batch" ELSE "rc_spawn"
          /\ (r.pc = "rc_spawn" /\ CopiesIn(r, tasks') < CopiesIn(r, tasks)) =>
                tasks' = Spawn(Exit(tasks, r), TaskAt("rd_select"))
          /\ (r.pc = "rc_spawn" /\ closer.calls = 0) =>
                /\ r.i >= Len(r.uniq)
                /\ Len(r.att) * batchSize >= Len(r.uniq)]_vars

\* a reconnect is about to resume reading after a first batch whose write failed
\* and a second batch that was written
C16_Witness ==
    \E r \in Tasks :
        /\ r.pc = "rc_spawn"
        /\ Len(r.att) = 2
        /\ ~r.att[1].ok
        /\ r.att[2].ok

\* no goroutine is inside handleReconnect
ReconnectionFinished == \A r \in Tasks : r.pc \notin ReconnectPcs

\* C26: once a reconnection has installed a socket and every handleReconnect has
\* finished, each stream key that a subscribeStreams call has recorded has been
\* handed to WriteJSON in a SUBSCRIBE frame on the current socket, by the
\* resubscription or by the call itself, or the call that recorded it holds the
\* current socket and is about to write it.
C26_NoSubscriptionLost ==
    (Running /\ conn # 0 /\ nSocks >= 2 /\ ReconnectionFinished) =>
        \A key \in Range(subscribedStreams) :
            \/ key \in sockTried[conn]
            \/ sub.pc = "sub_write" /\ sub.sock = conn /\ key \in Range(sub.streams)

\* the frames of a call were handed to the first socket and none was written, a
\* reconnection has replaced the socket and finished, and its resubscription has
\* handed every recorded key to the second socket
C26_Witness ==
    /\ Running
    /\ conn = 2
    /\ ReconnectionFinished
    /\ sub.pc = "idle"
    /\ sub.calls = 1
    /\ subscribedStreams # <<>>
    /\ Range(subscribedStreams) \subseteq sockTried[2]
    /\ Range(subscribedStreams) \subseteq sockTried[1]
    /\ sockSubs[1] = {}

\* C27: however the dispatch of a frame and Close are interleaved, the dispatch
\* does not send on a subscriber channel that Close has closed: no send ends in
\* the panic of a send on a closed channel.
C27_NoSendAfterClose == panic # "send on closed channel"

\* C29: the client has at most one open socket at any time (the socket a
\* reconnection replaces has been closed when the new handle is installed), and
\* none once Close has returned.
C29_OneOpenSocket ==
    /\ Cardinality(sockOpen) <= 1
    /\ CloseReturned => sockOpen = {}

\* C30: whatever batch size the client was constructed with, each iteration of
\* the batching loop moves i forward, so that the loop ends after at most
\* len(symbols) iterations, and no iteration slices out of range.
C30_BatchingTerminates ==
    [][(sub.pc = "split" /\ (sub' # sub \/ panic' # panic)) =>
          /\ panic' = "none"
          /\ sub'.pc = "split" => sub'.i > sub.i]_vars

\* ------------------------------------------------------------------------
\* Properties of the trade reconstruction
\* ------------------------------------------------------------------------
RECURSIVE Sum(_, _)
\* the sum of f[j] over the finite set J of indices
Sum(f, J) == IF J = {} THEN 0 ELSE LET j == CHOOSE x \in J : TRUE IN f[j] + Sum(f, J \ {j})

PositionSides == {"LONG", "SHORT"}
SideName(ps) == IF ps = "LONG" THEN "long" ELSE "short"

\* the fills of position side ps among the first n fills of the current symbol
OpeningIn(ps, lo, hi) ==
    {j \in lo..hi : trades[j].PositionSide = ps /\ isOpening(trades[j])}
ClosingIn(ps, lo, hi) ==
    {j \in lo..hi : trades[j].PositionSide = ps /\ ~isOpening(trades[j])}

\* the position really open on side ps after the first n fills
NetAfter(ps, n) ==
    Sum([j \in 1..Len(trades) |-> trades[j].Qty], OpeningIn(ps, 1, n))
      - Sum([j \in 1..Len(trades) |-> trades[j].Qty], ClosingIn(ps, 1, n))

\* the fills of side ps never close more than is open, and end with nothing open
FullyClosing(ps) ==
    /\ OpeningIn(ps, 1, Len(trades)) # {}
    /\ \A n \in 1..Len(trades) : NetAfter(ps, n) >= 0
    /\ NetAfter(ps, Len(trades)) = 0

\* the closing fills that end a cycle of side ps: they bring the open position to 0
CycleEnds(ps) ==
    {n \in ClosingIn(ps, 1, Len(trades)) : NetAfter(ps, n) = 0 /\ NetAfter(ps, n - 1) > 0}

\* the fill before which the cycle ending at fill n began
CycleStart(ps, n) ==
    LET before == {m \in CycleEnds(ps) : m < n}
    IN  IF before = {} THEN 1 ELSE 1 + CHOOSE m \in before : \A x \in before : x <= m

\* realized PnL minus commission accumulated by the closing fills lo..hi of side ps
AccumulatedPnL(ps, lo, hi) ==
    Sum([j \in 1..Len(trades) |-> trades[j].RealizedPnl - trades[j].Commission],
        ClosingIn(ps, lo, hi))

\* the outcomes of the current symbol on side ps, in the order emitted
OutcomesOf(ps) ==
    SelectSeq(analysis.RecentTrades, LAMBDA o : o.Symbol = symbol /\ o.Side = SideName(ps))

\* C5: when the fills of a side fully close its positions, there is one outcome per
\* closing cycle, and its PnL is the realized PnL minus the commission accumulated
\* over that cycle only.
C5_OneOutcomePerCycle ==
    \A ps \in PositionSides : (symbol # "" /\ FullyClosing(ps)) =>
        /\ Len(OutcomesOf(ps)) = Cardinality(CycleEnds(ps))
        /\ \A j \in 1..Len(OutcomesOf(ps)) :
              LET o == OutcomesOf(ps)[j]
              IN  /\ o.CloseTime \in CycleEnds(ps)
                  /\ o.PnL = AccumulatedPnL(ps, CycleStart(ps, o.CloseTime), o.CloseTime)

\* the fill after the previous outcome of the same side, where the cycle of the
\* outcome closed at fill n began
EmittedCycleStart(ps, n) ==
    LET before == {OutcomesOf(ps)[j].CloseTime : j \in 1..Len(OutcomesOf(ps))} \cap 1..(n - 1)
    IN  IF before = {} THEN 1 ELSE 1 + CHOOSE m \in before : \A x \in before : x <= m

\* C6: the open price of an outcome is the quantity-weighted average price of the
\* opening fills of its cycle, its quantity is what was open before the final
\* closing fill, position value is open price x quantity and margin used is position
\* value / 5, also when several closing fills close the cycle; and opening 1.0 at
\* 100, closing 1.0 at 110 with commission 0.2 gives 100, 110, 100, 20, 9.8 and 49.
C6_OpenPriceIsWeightedAverage ==
    /\ \A ps \in PositionSides : \A j \in 1..Len(OutcomesOf(ps)) :
          LET o == OutcomesOf(ps)[j]
              lo == EmittedCycleStart(ps, o.CloseTime)
              opens == OpeningIn(ps, lo, o.CloseTime)
              cost == Sum([x \in 1..Len(trades) |-> trades[x].Price * trades[x].Qty], opens)
              qty == Sum([x \in 1..Len(trades) |-> trades[x].Qty], opens)
              closedBefore == Sum([x \in 1..Len(trades) |-> trades[x].Qty],
                                  ClosingIn(ps, lo, o.CloseTime - 1))
          IN  opens # {} =>
                 /\ o.OpenPrice = Quot(cost, qty)
                 /\ o.Quantity = qty - closedBefore
                 /\ o.PositionValue = QuotTimes(o.OpenPrice, o.Quantity)
                 /\ o.MarginUsed = QuotOver(o.PositionValue, 5)
    /\ ( /\ Len(trades) = 2
         /\ trades[1].Side = "BUY" /\ trades[1].PositionSide = "LONG"
         /\ trades[1].Qty = 10000 /\ trades[1].Price = 100
         /\ trades[2].Side = "SELL" /\ trades[2].PositionSide = "LONG"
         /\ trades[2].Qty = 10000 /\ trades[2].Price = 110
         /\ trades[2].RealizedPnl = 100000 /\ trades[2].Commission = 2000 )
       => /\ Len(analysis.RecentTrades) = 1
          /\ LET o == analysis.RecentTrades[1]
             IN  /\ QuotIs(o.OpenPrice, 100)
                 /\ o.ClosePrice = 110
                 /\ QuotIs(o.PositionValue, 1000000)
                 /\ QuotIs(o.MarginUsed, 200000)
                 /\ o.PnL = 98000
                 /\ QuotIs(o.PnLPct, 49)

\* C7: in a step that reads a fill, an outcome is emitted exactly when the fill is a
\* closing fill that leaves the running quantity of its accumulator at or below
\* 0.0001; then exactly one outcome is appended, for that fill, and the accumulator
\* is all zero afterwards; an opening fill, a closing fill that leaves more, and a
\* fill of no position side emit nothing.
C7_EmitOnlyOnFullClose ==
    [][(symbol' = symbol /\ Len(trades') = Len(trades) + 1) =>
          LET t == trades'[Len(trades')]
              before == IF t.PositionSide = "LONG" THEN longPos ELSE shortPos
              after == IF t.PositionSide = "LONG" THEN longPos' ELSE shortPos'
              rt == analysis.RecentTrades
              rt2 == analysis'.RecentTrades
          IN  IF /\ t.PositionSide \in PositionSides
                 /\ ~isOpening(t)
                 /\ before.totalQty - t.Qty <= Eps
              THEN /\ Len(rt2) = Len(rt) + 1
                   /\ SubSeq(rt2, 1, Len(rt)) = rt
                   /\ rt2[Len(rt2)].CloseTime = t.Time
                   /\ rt2[Len(rt2)].Side = SideName(t.PositionSide)
                   /\ after = ZeroPosition
              ELSE /\ rt2 = rt
                   /\ (t.PositionSide \in PositionSides /\ ~isOpening(t)) =>
                          after.totalQty = before.totalQty - t.Qty]_vars

\* a closing fill left exactly 0.0001 open and its outcome was emitted
C7_Witness ==
    /\ Len(trades) = 2
    /\ trades[1].PositionSide = "LONG" /\ isOpening(trades[1]) /\ trades[1].Qty = 2
    /\ trades[2].PositionSide = "LONG" /\ ~isOpening(trades[2]) /\ trades[2].Qty = 1
    /\ Len(analysis.RecentTrades) = 1
    /\ longPos = ZeroPosition

\* the step reads one more fill of the current symbol
ReadsFill == symbol' = symbol /\ Len(trades') = Len(trades) + 1

\* C17: a LONG fill leaves the SHORT accumulator as it was and a SHORT fill the
\* LONG one; an outcome carries the side of the fill that closed it; a fill of
\* neither side leaves both accumulators and the analysis as they were; and when
\* the fold moves to another symbol both accumulators start empty, so that no
\* fill of one symbol is counted in the accumulators of another.
C17_SidesAndSymbolsIndependent ==
    [][/\ ReadsFill =>
             LET t == trades'[Len(trades')]
             IN  /\ t.PositionSide = "LONG" => shortPos' = shortPos
                 /\ t.PositionSide = "SHORT" => longPos' = longPos
                 /\ t.PositionSide \notin PositionSides =>
                       UNCHANGED <<longPos, shortPos, analysis>>
                 /\ analysis' # analysis =>
                       LET o == analysis'.RecentTrades[Len(analysis'.RecentTrades)]
                       IN  o.Side = SideName(t.PositionSide) /\ o.Symbol = symbol
       /\ symbol' # symbol =>
             /\ longPos' = ZeroPosition /\ shortPos' = ZeroPosition
             /\ UNCHANGED analysis]_vars

\* the second symbol holds an open LONG and an open SHORT position and has read a
\* fill of no position side, after the first symbol closed a trade and was left
\* with a position open
C17_Witness ==
    /\ todo = {}
    /\ Len(trades) = 3
    /\ trades[3].PositionSide = "BOTH"
    /\ longPos.totalQty = 10000
    /\ shortPos.totalQty = 10000
    /\ Len(analysis.RecentTrades) = 1
    /\ analysis.RecentTrades[1].Symbol # symbol

\* the fills of side ps of the current symbol never brought its open quantity to
\* 0.0001 or less (only opening fills, or closing fills that left more)
NeverClosed(ps) ==
    \A n \in 1..Len(trades) : trades[n].PositionSide = ps => NetAfter(ps, n) > Eps

\* the number of listed outcomes satisfying test
CountOutcomes(test(_)) ==
    Cardinality({j \in 1..Len(analysis.RecentTrades) : test(analysis.RecentTrades[j])})

\* C18: a position side of the symbol being folded whose open quantity never came
\* down to 0.0001 has no outcome, and the counters hold nothing of it: the trade,
\* win and loss counts, and the symbol's own counts, are those of the listed
\* outcomes, all of which belong to other sides or symbols.
C18_OpenPositionsExcluded ==
    \A ps \in PositionSides : (symbol # "" /\ NeverClosed(ps)) =>
        /\ OutcomesOf(ps) = <<>>
        /\ analysis.TotalTrades = Len(analysis.RecentTrades)
        /\ analysis.WinningTrades = CountOutcomes(LAMBDA o : o.PnL > 0)
        /\ analysis.LosingTrades = CountOutcomes(LAMBDA o : o.PnL < 0)
        /\ IF CountOutcomes(LAMBDA o : o.Symbol = symbol) = 0
           THEN symbol \notin DOMAIN analysis.SymbolStats
           ELSE /\ analysis.SymbolStats[symbol].TotalTrades
                      = CountOutcomes(LAMBDA o : o.Symbol = symbol)
                /\ analysis.SymbolStats[symbol].WinningTrades
                      = CountOutcomes(LAMBDA o : o.Symbol = symbol /\ o.PnL > 0)
                /\ analysis.SymbolStats[symbol].LosingTrades
                      = CountOutcomes(LAMBDA o : o.Symbol = symbol /\ o.PnL < 0)

\* the LONG side was opened and partly closed and is still open, while the SHORT
\* side closed a trade: one trade is counted
C18_Witness ==
    /\ symbol # ""
    /\ NeverClosed("LONG")
    /\ ClosingIn("LONG", 1, Len(trades)) # {}
    /\ longPos.totalQty = 5000
    /\ Len(OutcomesOf("SHORT")) = 1
    /\ analysis.TotalTrades = 1

\* the quotient lies in [lo, hi]
QuotWithin(a, lo, hi) == a.den > 0 /\ lo * a.den <= a.num /\ a.num <= hi * a.den

\* C19: the win rate and the profit factor are within [0, 100] whatever the
\* outcomes are, and the analysis returned for an empty set of outcomes has the
\* counts 0 and a win rate, profit factor and Sharpe ratio of 0.
C19_RatiosWithinBounds ==
    /\ QuotWithin(analysis.WinRate, 0, 100)
    /\ QuotWithin(analysis.ProfitFactor, 0, 100)
    /\ (stage = "returned" /\ analysis.RecentTrades = <<>>) =>
          /\ analysis.TotalTrades = 0
          /\ analysis.WinningTrades = 0
          /\ analysis.LosingTrades = 0
          /\ QuotIs(analysis.WinRate, 0)
          /\ QuotIs(analysis.ProfitFactor, 0)
          /\ analysis.SharpeRatio.sgn = 0
          /\ QuotIs(analysis.SharpeRatio.sq, 0)

\* the analysis of fills that closed no trade has been returned
C19_Witness ==
    /\ stage = "returned"
    /\ Len(trades) > 0
    /\ analysis.RecentTrades = <<>>

\* the sum of the PnL of the listed outcomes satisfying test
SumPnL(test(_)) ==
    Sum([j \in 1..Len(analysis.RecentTrades) |-> analysis.RecentTrades[j].PnL],
        {j \in 1..Len(analysis.RecentTrades) : test(analysis.RecentTrades[j])})

\* C20: in the returned analysis every outcome counts as a trade, as a win when
\* its PnL is above 0 and as a loss when it is below 0, and as neither when it is
\* 0; the win rate is wins / trades x 100; the profit factor is, with a losing
\* trade, the average win over minus the average loss, at most 100 (0 without a
\* win); 100 with a winning and no losing trade; 0 without a winning trade.
C20_ProfitFactorCases ==
    stage = "returned" =>
        LET total == Len(analysis.RecentTrades)
            winning == CountOutcomes(LAMBDA o : o.PnL > 0)
            losing == CountOutcomes(LAMBDA o : o.PnL < 0)
            sumWin == SumPnL(LAMBDA o : o.PnL > 0)
            sumLoss == SumPnL(LAMBDA o : o.PnL < 0)
            pf == analysis.ProfitFactor
            wr == analysis.WinRate
        IN  /\ analysis.TotalTrades = total
            /\ analysis.WinningTrades = winning
            /\ analysis.LosingTrades = losing
            /\ wr.den > 0
            /\ total > 0 => wr.num * total = winning * 100 * wr.den
            /\ pf.den > 0
            /\ (losing >= 1 /\ winning >= 1) =>
                  IF sumWin * losing > 100 * winning * (-sumLoss)
                  THEN QuotIs(pf, 100)
                  ELSE pf.num * winning * (-sumLoss) = pf.den * sumWin * losing
            /\ (winning >= 1 /\ losing = 0) => QuotIs(pf, 100)
            /\ winning = 0 => QuotIs(pf, 0)

\* two trades were closed, one with a gain and one with a PnL of exactly 0: the
\* win rate is 50 and the profit factor 100
C20_Witness ==
    /\ stage = "returned"
    /\ analysis.TotalTrades = 2
    /\ analysis.WinningTrades = 1
    /\ analysis.LosingTrades = 0
    /\ \E j \in 1..2 : analysis.RecentTrades[j].PnL = 0
    /\ QuotIs(analysis.WinRate, 50)
    /\ QuotIs(analysis.ProfitFactor, 100)


\* the Sharpe ratio is 0
SharpeIsZero(sr) == sr.sgn = 0 /\ QuotIs(sr.sq, 0)

\* C21: the returned Sharpe ratio is within [-3, 3]; it is 0 when fewer than two
\* outcomes have a return, and 0 when the returns have no spread (their
\* deviation is 0, as when all are equal); a ratio beyond 3 or -3 is returned
\* as 3 or -3.
C21_SharpeZeroOrClipped ==
    stage = "returned" =>
        LET returns == returnsOf(analysis.RecentTrades)
            n == Len(returns)
            avgReturn == QuotOver(QuotSum(returns), n)
            variance == varianceOf(returns)
            sr == analysis.SharpeRatio
        IN  /\ sr.sgn \in {-1, 0, 1}
            /\ QuotWithin(sr.sq, 0, 9)
            /\ n < 2 => SharpeIsZero(sr)
            /\ (n >= 2 /\ variance.num = 0) => SharpeIsZero(sr)
            /\ (n >= 2 /\ variance.num > 0
                  /\ QuotGt(QuotDiv(QuotMul(avgReturn, avgReturn), variance), 9)) =>
                  /\ QuotIs(sr.sq, 9)
                  /\ sr.sgn = Sign(avgReturn.num)


\* the mean of the squares of the returns
MeanSquare(returns) ==
    QuotOver(QuotSum([j \in 1..Len(returns) |-> QuotMul(returns[j], returns[j])]),
             Len(returns))

\* C22: with at least two returns PnL / base that are not all equal, the Sharpe
\* ratio that is within the range is the mean of the returns over their
\* population standard deviation (the variance is the mean of the squares minus
\* the square of the mean: divisor n), and nothing is annualised; the returns
\* 0.10 and -0.04 have the mean 0.03 and the deviation 0.07 (variance 0.0049),
\* and their ratio is 3/7, about 0.43.
C22_SharpeIsMeanOverDeviation ==
    stage = "returned" =>
        LET returns == returnsOf(analysis.RecentTrades)
            n == Len(returns)
            mean == QuotOver(QuotSum(returns), n)
            variance == QuotSub(MeanSquare(returns), QuotMul(mean, mean))
            square == QuotDiv(QuotMul(mean, mean), variance)
            sr == analysis.SharpeRatio
        IN  /\ (n >= 2 /\ variance.num # 0 /\ ~QuotGt(square, 9)) =>
                  /\ sr.sgn = Sign(mean.num)
                  /\ sr.sq = square
            /\ returns = <<Quot(1, 10), Quot(-1, 25)>> =>
                  /\ mean = Quot(3, 100)
                  /\ variance = QuotMul(Quot(7, 100), Quot(7, 100))
                  /\ sr = [sgn |-> 1, sq |-> QuotMul(Quot(3, 7), Quot(3, 7))]

\* the analysis of a trade that won 2.0 and a trade that lost 0.8, each on a
\* margin of 20, has been returned with a Sharpe ratio of 3/7
C22_Witness ==
    /\ stage = "returned"
    /\ Len(analysis.RecentTrades) = 2
    /\ analysis.RecentTrades[1].PnL = 20000
    /\ analysis.RecentTrades[2].PnL = -8000
    /\ \A j \in 1..2 : QuotIs(analysis.RecentTrades[j].MarginUsed, 200000)
    /\ analysis.SharpeRatio = [sgn |-> 1, sq |-> Quot(9, 49)]


\* C23: the statistics of a symbol are those of its own outcomes: the numbers of
\* its trades, wins and losses and the sum of its PnL, and in the returned
\* analysis a win rate of wins / trades x 100 and an average PnL of total PnL /
\* trades; the per-symbol counts add up to TotalTrades, WinningTrades and
\* LosingTrades, TotalTrades is the number of listed outcomes, and the symbols
\* with an entry are those with an outcome.
C23_SymbolStatsOverOwnOutcomes ==
    LET stats == analysis.SymbolStats
        entries == DOMAIN stats
    IN  /\ entries = {analysis.RecentTrades[j].Symbol : j \in 1..Len(analysis.RecentTrades)}
        /\ \A y \in entries :
              LET st == stats[y]
                  trades_y == CountOutcomes(LAMBDA o : o.Symbol = y)
              IN  /\ st.Symbol = y
                  /\ trades_y >= 1
                  /\ st.TotalTrades = trades_y
                  /\ st.WinningTrades = CountOutcomes(LAMBDA o : o.Symbol = y /\ o.PnL > 0)
                  /\ st.LosingTrades = CountOutcomes(LAMBDA o : o.Symbol = y /\ o.PnL < 0)
                  /\ st.TotalPnL = SumPnL(LAMBDA o : o.Symbol = y)
                  /\ stage = "returned" =>
                        /\ st.WinRate.den > 0
                        /\ st.WinRate.num * trades_y = st.WinningTrades * 100 * st.WinRate.den
                        /\ st.AvgPnL.den > 0
                        /\ st.AvgPnL.num * trades_y = st.TotalPnL * st.AvgPnL.den
        /\ analysis.TotalTrades = Len(analysis.RecentTrades)
        /\ analysis.TotalTrades = Sum([y \in entries |-> stats[y].TotalTrades], entries)
        /\ analysis.WinningTrades = Sum([y \in entries |-> stats[y].WinningTrades], entries)
        /\ analysis.LosingTrades = Sum([y \in entries |-> stats[y].LosingTrades], entries)

\* the analysis of two symbols has been returned: on one a trade that won and a
\* trade that made nothing (win rate 50), on the other a trade that lost
C23_Witness ==
    /\ stage = "returned"
    /\ DOMAIN analysis.SymbolStats = TwoSymbols
    /\ \E y \in TwoSymbols :
          /\ analysis.SymbolStats[y].TotalTrades = 2
          /\ analysis.SymbolStats[y].WinningTrades = 1
          /\ analysis.SymbolStats[y].LosingTrades = 0
          /\ QuotIs(analysis.SymbolStats[y].WinRate, 50)
          /\ \E z \in TwoSymbols \ {y} :
                /\ analysis.SymbolStats[z].LosingTrades = 1
                /\ analysis.SymbolStats[z].TotalPnL < 0
    /\ analysis.TotalTrades = 3


\* the history fetch of this request failed
FetchFailed == handler.fetch \in {"err", "unsupported"}

\* C24: when the history fetch fails, the analysis returns an error and no
\* analysis (it neither goes on to fold nor returns an analysis, and no outcome
\* or count is produced); the handler then asks the local decision log and
\* answers 200 with the log's analysis, or 500 with an error when the log fails
\* too; it never answers with an exchange analysis.
C24_FetchFailureFallsBack ==
    FetchFailed =>
        /\ stage \in {"failed", "answered"}
        /\ analysis = EmptyAnalysis
        /\ stage = "failed" => handler.status = 0 /\ handler.fallback = "none"
        /\ stage = "answered" =>
              \/ handler.fallback = "ok" /\ handler.status = 200 /\ handler.body = "log"
              \/ handler.fallback = "err" /\ handler.status = 500 /\ handler.body = "error"

\* the fetch failed and the request was answered with the analysis of the log
C24_Witness ==
    /\ handler.fetch = "err"
    /\ stage = "answered"
    /\ handler.fallback = "ok"
    /\ handler.status = 200
    /\ handler.body = "log"


\* the analysis one call builds when it folds the fills of sym from the n-th on
RECURSIVE FoldFrom(_, _, _, _, _, _)
FoldFrom(a, sym, fills, n, lp, sp) ==
    IF n > Len(fills) THEN a
    ELSE LET trade == [Side |-> fills[n].Side, PositionSide |-> fills[n].PositionSide,
                       Qty |-> fills[n].Qty, Price |-> fills[n].Price,
                       RealizedPnl |-> fills[n].RealizedPnl,
                       Commission |-> fills[n].Commission, Time |-> n]
             long == trade.PositionSide = "LONG"
             pos == IF long THEN lp ELSE sp
             closed == applyClose(pos, trade)
             emits == ~isOpening(trade) /\ fullyClosed(closed)
             pos2 == IF isOpening(trade) THEN applyOpen(pos, trade)
                     ELSE IF emits THEN ZeroPosition ELSE closed
         IN  IF ~tracked(trade) THEN FoldFrom(a, sym, fills, n + 1, lp, sp)
             ELSE FoldFrom(IF emits THEN recordOutcome(a, tradeOutcome(sym, closed, trade))
                           ELSE a,
                           sym, fills, n + 1,
                           IF long THEN pos2 ELSE lp, IF long THEN sp ELSE pos2)

\* what a call that runs alone returns for the history h, visiting its two
\* symbols in the given order
Isolated(h, order) ==
    LET first == FoldFrom(EmptyAnalysis, order[1], h[order[1]], 1, ZeroPosition, ZeroPosition)
        both == FoldFrom(first, order[2], h[order[2]], 1, ZeroPosition, ZeroPosition)
    IN  withStatistics(both, TRUE)

\* the same counts, ratios, per-symbol statistics and outcomes, in any order
SameResult(a, b) ==
    /\ [a EXCEPT !.RecentTrades = <<>>] = [b EXCEPT !.RecentTrades = <<>>]
    /\ Len(a.RecentTrades) = Len(b.RecentTrades)
    /\ Range(a.RecentTrades) = Range(b.RecentTrades)

\* C25: of two calls given the same history, whether one runs after the other
\* or their steps are interleaved, each returns the counts, ratios, per-symbol
\* statistics and outcomes that a call running alone returns, and so the same as
\* the other: nothing one call accumulates is seen by the other.
C25_CallsAreIsolated ==
    DOMAIN peer.history # {} =>
        /\ stage = "returned" =>
              \A order \in Orderings(TwoSymbols) :
                  SameResult(analysis, Isolated(peer.history, order))
        /\ peer.saved.stage = "returned" =>
              \A order \in Orderings(TwoSymbols) :
                  SameResult(peer.saved.analysis, Isolated(peer.history, order))
        /\ (stage = "returned" /\ peer.saved.stage = "returned") =>
              SameResult(analysis, peer.saved.analysis)

\* both calls have returned after their loops were interleaved, having visited
\* the symbols in different orders: three trades each
C25_Witness ==
    /\ DOMAIN peer.history # {}
    /\ peer.mixed
    /\ stage = "returned"
    /\ peer.saved.stage = "returned"
    /\ analysis.TotalTrades = 3
    /\ peer.saved.analysis.TotalTrades = 3
    /\ analysis.RecentTrades # peer.saved.analysis.RecentTrades


\* C28: every listed outcome belongs to a cycle with an opening fill: its
\* quantity, its open price and its margin are above 0 (an outcome emitted for a
\* closing fill that found its accumulator empty has the quantity 0 and 0/0 for
\* its open price and margin), and every counted trade is a listed outcome.
C28_OutcomeHasOpeningFill ==
    /\ analysis.TotalTrades = Len(analysis.RecentTrades)
    /\ \A j \in 1..Len(analysis.RecentTrades) :
          LET o == analysis.RecentTrades[j]
          IN  /\ o.Quantity > 0
              /\ QuotPos(o.OpenPrice) /\ o.OpenPrice.den > 0
              /\ QuotPos(o.MarginUsed) /\ o.MarginUsed.den > 0

====
